---- MODULE Spec2Model ----
(***************************************************************************)
(* Face-tracking and scanning behaviour controller of the Reachy project.  *)
(*                                                                         *)
(* Three copies of the tracking tick exist in the repository:              *)
(*   "flask" : Flask/FaceTracking/Controllers/tracking_controller.py       *)
(*             (TrackingController.process_frame / _handle_no_face) driven *)
(*             by Flask/FaceTracking/main.py (FaceTrackingSystem)          *)
(*   "rft"   : FaceTracking/reachy_face_tracking.py                        *)
(*             (ReachyFaceTracker._tracking_loop)                          *)
(*   "robot" : robot/controllers/tracking.py (TrackingController._loop)    *)
(*             running beside robot/controllers/robot.py                   *)
(*             (RobotController.interaction_loop)                          *)
(*                                                                         *)
(* Times are integers in tenths of a second.  The code only ever compares  *)
(* current_time - state_start_time with thresholds of at most 3.0 s, so    *)
(* the pair is kept in a sliding window of width TimeCap (see Window).     *)
(* frame_count is only ever read modulo 90 and is stored modulo 90.        *)
(***************************************************************************)
EXTENDS Integers, Sequences, FiniteSets, TLC

VARIABLES
    variant,               \* which copy of the tick is running
    frame_count,           \* self.frame_count (mod SCAN_EVERY)
    no_face_count,         \* self.no_face_count (saturating at MaxNoFace)
    PANLEFT,               \* self.PANLEFT
    scanning_state,        \* self.scanning_state / parent.scanning_state
    scan_count,            \* self.scan_count
    state_start_time,      \* self.state_start_time
    current_time,          \* the last value read from time.time()
    current_antenna_mode,  \* the antenna mode cell read by the animator
    target_pan,            \* self.target_pan
    target_roll,           \* self.target_roll
    target_pitch,          \* self.target_pitch
    image,                 \* the frame obtained by the last tick: "none" | "frame"
    face_detected,         \* whether the last tick's detector reported a face
    movement_command,      \* the movement command / goto issued by the last tick
    scan_history,          \* pans of the last two accepted scan attempts since
                           \* the last face (0: none), older first
    prev_state,            \* scanning_state at the start of the last tick
    elapsed,               \* current_time - state_start_time as the last tick
                           \* that obtained a frame saw it (at most TimeCap)
    scan_run,              \* the ticks taken since the state last became
                           \* scanning, kept in the runs that count them
    self_scanning_state,   \* "robot": the attribute scanning_state of the
                           \* TrackingController itself ("unset": never assigned)
    conversation_active,   \* "robot": parent.conversation_active
    running,               \* "robot": TrackingController.running
    il_pc,                 \* "robot": position of interaction_loop
    threads,               \* "robot": the tracking threads started so far, each
                           \* [pc, face, conv]: position and the tick's locals
    roi_controller,        \* the motion planner object (ROIController /
                           \* FaceTrackingController): its fields
    planner_call,          \* the last call of calculate_movement: its
                           \* arguments, what it returned and what preceded it
    present_position,      \* neck_yaw / neck_roll / neck_pitch .present_position
    current_pos,           \* self.current_pan / current_roll / current_pitch,
                           \* in units of 1 / AngleScale degrees
    goal_position,         \* the goal positions last written to the neck
    session,               \* the tracking loop as a whole: where it stands
                           \* and what its last tick read and did
    interp,                \* one axis interpolated in floating point: the
                           \* value before the last step, the value now,
                           \* the target and the rate
    shutdown,              \* the shutdown routine under way or last run,
                           \* the antenna loop's flag and the
                           \* return-to-neutral commands the routine issued
    antenna_threads,       \* the number of antenna loop threads alive

\* the state of the parts that run beside the tracking tick
    metadata,             \* the snapshot published with the last frame
    provider,             \* CameraFrameProvider: its files, its lock and its callers
    animator,             \* the antenna loop: the mode written for it, the beat it
                          \* is in and the commands the beat has issued
    proxy,                \* ProxyClient: its rate limit, its callers and what it
                          \* has emitted
    endpoint              \* tracking_control: the tracking_process global, the
                          \* subprocesses alive and the requests being served
aux == <<roi_controller, planner_call, present_position, current_pos,
        goal_position, session, interp, shutdown, antenna_threads,
                   metadata,
                   provider,
                   animator, proxy, endpoint>>

vars == <<variant, frame_count, no_face_count, PANLEFT, scanning_state,
          scan_count, state_start_time, current_time, current_antenna_mode,
          target_pan, target_roll, target_pitch, image, face_detected,
          movement_command, scan_history, prev_state, elapsed, scan_run,
          self_scanning_state, conversation_active, running, il_pc, threads,
          aux>>

----------------------------------------------------------------------------
(* Bounds of the model *)

\* width of the sliding time window, above every threshold of the code
TimeCap == 32
\* largest clock advance between two readings of time.time(), fine clock
MaxDt == 1
\* value at which the (unbounded) no-face counter is saturated
MaxNoFace == 61

(* Program constants *)

NO_FACE_LIMIT == 60
SCAN_EVERY == 90
GIVING_UP_TIME == 15
SAD_TIME == 20
LOOKING_DOWN_TIME == 30
WAITING_TIME == 20
PAN_MIN == 30
PAN_MAX == 75
ROLL_MAX == 5
LOOK_DOWN_ROLL == 30
MIN_MOVEMENT_THRESHOLD == 2

ScanStates == {"idle", "scanning", "giving_up", "sad", "looking_down", "waiting"}
AntennaModes == {"idle", "tracking", "scanning", "giving_up", "sad", "talking"}

\* self.MAX_SCANS of each copy
MAX_SCANS(v) == IF v = "flask" THEN 5 ELSE 1

NoCommand == [type |-> "none"]
Absolute(pan, roll) == [type |-> "absolute", pan |-> pan, roll |-> roll, pitch |-> 0]
Adjust(dpan, droll) == [type |-> "adjust", pan_adjustment |-> dpan,
                        roll_adjustment |-> droll, pitch |-> 0]

Min(a, b) == IF a < b THEN a ELSE b
Max(a, b) == IF a > b THEN a ELSE b

\* float('nan'), as a joint that has not reported yet reads; every other
\* number of the model is far smaller in magnitude
NaN == 0 - 1000000000
IsNaN(x) == x = NaN

\* a + b and a - b on floats: NaN in, NaN out
Plus(a, b) == IF IsNaN(a) \/ IsNaN(b) THEN NaN ELSE a + b
Minus(a, b) == IF IsNaN(a) \/ IsNaN(b) THEN NaN ELSE a - b

\* abs(x) > limit: a comparison with NaN is False
AbsExceeds(x, limit) == ~IsNaN(x) /\ (x > limit \/ 0 - x > limit)

----------------------------------------------------------------------------
(* Helpers shared by the three copies of the scanning state machine *)

\* current_time - self.state_start_time
Elapsed(now, sst) == now - sst

\* a cadence trigger that fires on every frame
ScanDue_EveryFrame(fc) == TRUE

\* the scan cadence trigger: self.frame_count % 90 == 0
ScanDue(fc) == fc % SCAN_EVERY = 0

\* a scan that forgets the toggle and always pans left
ScanPan_AlwaysLeft(panleft, mag) == 0 - mag

\* random_pan: the sign is taken from the PANLEFT toggle
ScanPan(panleft, mag) == IF panleft THEN 0 - mag ELSE mag

\* a timed exit that compares the clock itself, not the time in the state
TimedOut_NoStart(now, sst, limit) == now > limit

\* a timed exit that waits twice the limit
TimedOut_Doubled(now, sst, limit) == Elapsed(now, sst) > 2 * limit

\* the timed exits: current_time - self.state_start_time > limit
TimedOut(now, sst, limit) == Elapsed(now, sst) > limit

\* self.no_face_count += 1 (the counter is saturated at MaxNoFace)
IncNoFace(n) == Min(n + 1, MaxNoFace)

\* self.frame_count += 1 (kept modulo the scan cadence)
IncFrame(fc) == (fc + 1) % SCAN_EVERY

\* The clock pair after a tick, moved back into the window 0..TimeCap.
\* Differences above TimeCap all compare alike with every threshold.
Window(now, sst) ==
    LET shift == Max(0, now - TimeCap)
    IN  [current_time |-> now - shift, state_start_time |-> Max(0, sst - shift)]

----------------------------------------------------------------------------
(* "flask": TrackingController._handle_no_face                              *)
(* self is the record of the controller's fields; the result carries the   *)
(* updated fields and the returned (movement_command, antenna_mode).       *)

\* idle that starts scanning one tick late
FlaskIdle_OffByOne(self, now) ==
    IF self.no_face_count > NO_FACE_LIMIT
    THEN [self EXCEPT !.scanning_state = "scanning", !.scan_count = 0,
                      !.state_start_time = now, !.antenna_mode = "scanning"]
    ELSE [self EXCEPT !.antenna_mode = "idle"]

FlaskIdle(self, now) ==
    IF self.no_face_count >= NO_FACE_LIMIT
    THEN [self EXCEPT !.scanning_state = "scanning", !.scan_count = 0,
                      !.state_start_time = now, !.antenna_mode = "scanning"]
    ELSE [self EXCEPT !.antenna_mode = "idle"]

\* a scanning state that gives up one attempt early
FlaskScanning_OneFewer(self, now, mag, roll) ==
    IF ScanDue(self.frame_count)
    THEN IF self.scan_count + 1 >= self.MAX_SCANS
         THEN [self EXCEPT !.scan_count = @ + 1, !.scanning_state = "giving_up",
                           !.state_start_time = now, !.antenna_mode = "giving_up"]
         ELSE [self EXCEPT !.scan_count = @ + 1, !.PANLEFT = ~@,
                           !.antenna_mode = "scanning",
                           !.movement_command =
                               Absolute(ScanPan(self.PANLEFT, mag), roll)]
    ELSE [self EXCEPT !.antenna_mode = "scanning"]

FlaskScanning(self, now, mag, roll) ==
    IF ScanDue(self.frame_count)
    THEN IF self.scan_count + 1 > self.MAX_SCANS
         THEN [self EXCEPT !.scan_count = @ + 1, !.scanning_state = "giving_up",
                           !.state_start_time = now, !.antenna_mode = "giving_up"]
         ELSE [self EXCEPT !.scan_count = @ + 1, !.PANLEFT = ~@,
                           !.antenna_mode = "scanning",
                           !.movement_command =
                               Absolute(ScanPan(self.PANLEFT, mag), roll)]
    ELSE [self EXCEPT !.antenna_mode = "scanning"]

FlaskGivingUp(self, now) ==
    IF TimedOut(now, self.state_start_time, GIVING_UP_TIME)
    THEN [self EXCEPT !.scanning_state = "sad", !.state_start_time = now,
                      !.antenna_mode = "sad"]
    ELSE self

FlaskSad(self, now) ==
    IF TimedOut(now, self.state_start_time, SAD_TIME)
    THEN [self EXCEPT !.scanning_state = "looking_down", !.state_start_time = now,
                      !.antenna_mode = "sad",
                      !.movement_command = Absolute(0, 0 - LOOK_DOWN_ROLL)]
    ELSE [self EXCEPT !.antenna_mode = "sad"]

\* a looking-down state that repeats the pose command on every tick
FlaskLookingDown_Repeats(self, now) ==
    IF TimedOut(now, self.state_start_time, LOOKING_DOWN_TIME)
    THEN [self EXCEPT !.scanning_state = "waiting", !.state_start_time = now,
                      !.antenna_mode = "sad"]
    ELSE [self EXCEPT !.antenna_mode = "sad",
                      !.movement_command = Absolute(0, 0 - LOOK_DOWN_ROLL)]

FlaskLookingDown(self, now) ==
    IF TimedOut(now, self.state_start_time, LOOKING_DOWN_TIME)
    THEN [self EXCEPT !.scanning_state = "waiting", !.state_start_time = now,
                      !.antenna_mode = "sad"]
    ELSE [self EXCEPT !.antenna_mode = "sad"]

\* a waiting state that starts the next scanning run with the old count
FlaskWaiting_KeepsCount(self, now) ==
    IF TimedOut(now, self.state_start_time, WAITING_TIME)
    THEN [self EXCEPT !.scanning_state = "scanning",
                      !.state_start_time = now, !.antenna_mode = "scanning"]
    ELSE [self EXCEPT !.antenna_mode = "sad"]

\* waiting that loops back to sad instead of scanning
FlaskWaiting_ToSad(self, now) ==
    IF TimedOut(now, self.state_start_time, WAITING_TIME)
    THEN [self EXCEPT !.scanning_state = "sad", !.scan_count = 0,
                      !.state_start_time = now, !.antenna_mode = "sad"]
    ELSE [self EXCEPT !.antenna_mode = "sad"]

FlaskWaiting(self, now) ==
    IF TimedOut(now, self.state_start_time, WAITING_TIME)
    THEN [self EXCEPT !.scanning_state = "scanning", !.scan_count = 0,
                      !.state_start_time = now, !.antenna_mode = "scanning"]
    ELSE [self EXCEPT !.antenna_mode = "sad"]

\* _handle_no_face: movement_command = None, antenna_mode = "idle", then the
\* branch of the current state
handle_no_face(self0, now, mag, roll) ==
    LET self == [self0 EXCEPT !.movement_command = NoCommand, !.antenna_mode = "idle"]
    IN  CASE self.scanning_state = "idle"         -> FlaskIdle(self, now)
          [] self.scanning_state = "scanning"     -> FlaskScanning(self, now, mag, roll)
          [] self.scanning_state = "giving_up"    -> FlaskGivingUp(self, now)
          [] self.scanning_state = "sad"          -> FlaskSad(self, now)
          [] self.scanning_state = "looking_down" -> FlaskLookingDown(self, now)
          [] self.scanning_state = "waiting"      -> FlaskWaiting(self, now)
          [] OTHER                                -> self

\* a face branch that forgets to reset the scan-attempt count
FlaskFace_KeepsScanCount(self, movement) ==
    [self EXCEPT !.no_face_count = 0, !.scanning_state = "idle",
                 !.antenna_mode = "tracking",
                 !.movement_command =
                     IF movement = <<>> THEN NoCommand
                     ELSE Adjust(movement[1], movement[2])]

\* process_frame, face branch: the counters and the state are reset, the
\* antenna mode is "tracking", the planner's result becomes an adjust command
FlaskFace(self, movement) ==
    [self EXCEPT !.no_face_count = 0, !.scan_count = 0, !.scanning_state = "idle",
                 !.antenna_mode = "tracking",
                 !.movement_command =
                     IF movement = <<>> THEN NoCommand
                     ELSE Adjust(movement[1], movement[2])]

\* process_frame after a frame was obtained
process_frame(self, now, face, movement, mag, roll) ==
    IF face
    THEN FlaskFace(self, movement)
    ELSE handle_no_face([self EXCEPT !.no_face_count = IncNoFace(@)], now, mag, roll)

\* FaceTrackingSystem._main_loop: the head target that follows from a command
MainLoopTarget(cmd, target, actual) ==
    CASE cmd.type = "adjust" ->
             [pan |-> Plus(actual[1], cmd.pan_adjustment),
              roll |-> Plus(actual[2], cmd.roll_adjustment), pitch |-> cmd.pitch]
      [] cmd.type = "absolute" ->
             [pan |-> cmd.pan, roll |-> cmd.roll, pitch |-> cmd.pitch]
      [] OTHER -> target

----------------------------------------------------------------------------
(* "rft": ReachyFaceTracker._tracking_loop.  The antenna mode is the field *)
(* self.current_antenna_mode, written only on the lines that assign it     *)
(* (enable_antenna is True, the default and the value main() passes); the  *)
(* scan waypoint is written into the targets; the looking-down pose is a   *)
(* goto() and leaves the targets alone.                                    *)

Goto(pan, roll) == [type |-> "goto", pan |-> pan, roll |-> roll, pitch |-> 0]

RftIdle(self, now) ==
    IF self.no_face_count >= NO_FACE_LIMIT
    THEN [self EXCEPT !.scanning_state = "scanning", !.scan_count = 0,
                      !.state_start_time = now, !.antenna_mode = "scanning"]
    ELSE [self EXCEPT !.antenna_mode = "idle"]

\* scanning that gives up on reaching MAX_SCANS instead of exceeding it
RftScanning_GivesUpEarly(self, now, mag, roll) ==
    IF ScanDue(self.frame_count)
    THEN IF self.scan_count + 1 >= self.MAX_SCANS
         THEN [self EXCEPT !.scan_count = @ + 1, !.scanning_state = "giving_up",
                           !.state_start_time = now, !.antenna_mode = "giving_up"]
         ELSE [self EXCEPT !.scan_count = @ + 1, !.PANLEFT = ~@,
                           !.antenna_mode = "scanning",
                           !.target_pan = ScanPan(self.PANLEFT, mag),
                           !.target_roll = roll, !.target_pitch = 0]
    ELSE [self EXCEPT !.antenna_mode = "scanning"]

RftScanning(self, now, mag, roll) ==
    IF ScanDue(self.frame_count)
    THEN IF self.scan_count + 1 > self.MAX_SCANS
         THEN [self EXCEPT !.scan_count = @ + 1, !.scanning_state = "giving_up",
                           !.state_start_time = now, !.antenna_mode = "giving_up"]
         ELSE [self EXCEPT !.scan_count = @ + 1, !.PANLEFT = ~@,
                           !.antenna_mode = "scanning",
                           !.target_pan = ScanPan(self.PANLEFT, mag),
                           !.target_roll = roll, !.target_pitch = 0]
    ELSE [self EXCEPT !.antenna_mode = "scanning"]

RftGivingUp(self, now) ==
    IF TimedOut(now, self.state_start_time, GIVING_UP_TIME)
    THEN [self EXCEPT !.scanning_state = "sad", !.state_start_time = now,
                      !.antenna_mode = "sad"]
    ELSE self

RftSad(self, now) ==
    IF TimedOut(now, self.state_start_time, SAD_TIME)
    THEN [self EXCEPT !.scanning_state = "looking_down", !.state_start_time = now,
                      !.antenna_mode = "sad",
                      !.movement_command = Goto(0, 0 - LOOK_DOWN_ROLL)]
    ELSE [self EXCEPT !.antenna_mode = "sad"]

RftLookingDown(self, now) ==
    IF TimedOut(now, self.state_start_time, LOOKING_DOWN_TIME)
    THEN [self EXCEPT !.scanning_state = "waiting", !.state_start_time = now,
                      !.antenna_mode = "sad"]
    ELSE [self EXCEPT !.antenna_mode = "sad"]

RftWaiting(self, now) ==
    IF TimedOut(now, self.state_start_time, WAITING_TIME)
    THEN [self EXCEPT !.scanning_state = "scanning", !.scan_count = 0,
                      !.state_start_time = now, !.antenna_mode = "scanning",
                      !.target_pitch = 0]
    ELSE [self EXCEPT !.antenna_mode = "sad"]

\* the else branch of "if results.detections"
RftNoFace(self0, now, mag, roll) ==
    LET self == [self0 EXCEPT !.no_face_count = IncNoFace(@)]
    IN  CASE self.scanning_state = "idle"         -> RftIdle(self, now)
          [] self.scanning_state = "scanning"     -> RftScanning(self, now, mag, roll)
          [] self.scanning_state = "giving_up"    -> RftGivingUp(self, now)
          [] self.scanning_state = "sad"          -> RftSad(self, now)
          [] self.scanning_state = "looking_down" -> RftLookingDown(self, now)
          [] self.scanning_state = "waiting"      -> RftWaiting(self, now)
          [] OTHER                                -> self

\* a face branch that would add the adjustment to the previous target
RftFace_FromTarget(self, movement, actual) ==
    LET r == [self EXCEPT !.no_face_count = 0, !.scan_count = 0,
                          !.scanning_state = "idle", !.antenna_mode = "tracking"]
    IN  IF movement = <<>> THEN r
        ELSE [r EXCEPT !.target_pan = Plus(self.target_pan, movement[1]),
                       !.target_roll = Plus(self.target_roll, movement[2]),
                       !.target_pitch = 0]

\* the face branch: reset, antenna mode "tracking", and on an accepted
\* movement the targets become the actuator's present position plus it
RftFace(self, movement, actual) ==
    LET r == [self EXCEPT !.no_face_count = 0, !.scan_count = 0,
                          !.scanning_state = "idle", !.antenna_mode = "tracking"]
    IN  IF movement = <<>> THEN r
        ELSE [r EXCEPT !.target_pan = Plus(actual[1], movement[1]),
                       !.target_roll = Plus(actual[2], movement[2]),
                       !.target_pitch = 0]

\* one iteration of the while loop after a frame was obtained
tracking_loop(self, now, face, movement, actual, mag, roll) ==
    IF face THEN RftFace(self, movement, actual)
    ELSE RftNoFace(self, now, mag, roll)

----------------------------------------------------------------------------
(* "robot": TrackingController._loop of robot/controllers/tracking.py.     *)
(* scanning_state is parent.scanning_state, the state the loop branches    *)
(* on; self_scanning_state is the attribute the idle branch assigns.       *)
(* conv is the value the tick read from parent.conversation_active.        *)

RobotIdleState(self, now) ==
    IF self.no_face_count >= NO_FACE_LIMIT
    THEN [self EXCEPT !.self_scanning_state = "scanning", !.scan_count = 0,
                      !.state_start_time = now, !.antenna_mode = "scanning"]
    ELSE [self EXCEPT !.antenna_mode = "idle"]

RobotScanning(self, now, mag, roll) ==
    IF ScanDue(self.frame_count)
    THEN IF self.scan_count + 1 > self.MAX_SCANS
         THEN [self EXCEPT !.scan_count = @ + 1, !.scanning_state = "giving_up",
                           !.state_start_time = now, !.antenna_mode = "giving_up"]
         ELSE [self EXCEPT !.scan_count = @ + 1, !.PANLEFT = ~@,
                           !.antenna_mode = "scanning",
                           !.target_pan = ScanPan(self.PANLEFT, mag),
                           !.target_roll = roll, !.target_pitch = 0]
    ELSE [self EXCEPT !.antenna_mode = "scanning"]

\* the timed branches are those of the "rft" copy, line for line
RobotNoFace(self0, conv, now, mag, roll) ==
    IF conv THEN self0
    ELSE LET self == [self0 EXCEPT !.no_face_count = IncNoFace(@)]
         IN  CASE self.scanning_state = "idle"         -> RobotIdleState(self, now)
               [] self.scanning_state = "scanning"     -> RobotScanning(self, now, mag, roll)
               [] self.scanning_state = "giving_up"    -> RftGivingUp(self, now)
               [] self.scanning_state = "sad"          -> RftSad(self, now)
               [] self.scanning_state = "looking_down" -> RftLookingDown(self, now)
               [] self.scanning_state = "waiting"      -> RftWaiting(self, now)
               [] OTHER                                -> self

\* the face branch up to the read of conversation_active
RobotReset(self) ==
    [self EXCEPT !.no_face_count = 0, !.scan_count = 0, !.scanning_state = "idle"]

\* the face branch from the read of conversation_active on; movement is
\* (pan_movement, roll_movement) when the smoothed error is past DEADBAND,
\* and the targets move when either new target differs from the present one
\* by more than MIN_MOVEMENT_THRESHOLD
RobotFace(self, conv, movement, actual) ==
    LET r == [self EXCEPT !.antenna_mode = IF conv THEN @ ELSE "tracking",
                          !.target_pitch = 0]
    IN  IF movement = <<>> THEN r
        ELSE LET new_target_pan  == Plus(actual[1], movement[1])
                 new_target_roll == Plus(actual[2], movement[2])
             IN  IF \/ AbsExceeds(Minus(new_target_pan, self.target_pan),
                                  MIN_MOVEMENT_THRESHOLD)
                    \/ AbsExceeds(Minus(new_target_roll, self.target_roll),
                                  MIN_MOVEMENT_THRESHOLD)
                 THEN [r EXCEPT !.target_pan = new_target_pan,
                                !.target_roll = new_target_roll]
                 ELSE r

\* one iteration of the loop body after a frame was obtained
robot_loop(self, conv, now, face, movement, actual, mag, roll) ==
    IF face THEN RobotFace(RobotReset(self), conv, movement, actual)
    ELSE RobotNoFace(self, conv, now, mag, roll)

----------------------------------------------------------------------------
(* The tick of the two single-threaded copies as one action *)

\* the controller's fields as a record, with this tick's locals cleared
Fields(fc) ==
    [scanning_state |-> scanning_state, no_face_count |-> no_face_count,
     scan_count |-> scan_count, state_start_time |-> state_start_time,
     frame_count |-> fc, PANLEFT |-> PANLEFT,
     MAX_SCANS |-> MAX_SCANS(variant), antenna_mode |-> current_antenna_mode,
     target_pan |-> target_pan, target_roll |-> target_roll,
     target_pitch |-> target_pitch, movement_command |-> NoCommand,
     self_scanning_state |-> self_scanning_state]

\* the fields at the start of a tick: self.frame_count += 1
Self == Fields(IncFrame(frame_count))

\* the tick was a scan attempt that produced a waypoint
ScanAccepted(r) ==
    /\ scanning_state = "scanning"
    /\ r.scanning_state = "scanning"
    /\ r.scan_count = scan_count + 1

\* the tick's result written back to the fields
\* the count of the ticks of a scanning run stops here: one more than the
\* longest run in which every tick has a frame
MaxTicks == 541

\* no run of the scanning state under way, counted or not
NoRun(counting) == [counting |-> counting, ticks |-> 0, frames |-> TRUE]

\* the ticks since the state became scanning, after a tick that leaves the
\* fields r: 0 until the state is scanning, one more on every tick begun
\* in it; frames tells whether each of them obtained a frame
Counted(r, img) ==
    IF ~scan_run.counting THEN scan_run
    ELSE IF scanning_state = "scanning"
    THEN [scan_run EXCEPT !.ticks = Min(@ + 1, MaxTicks),
                          !.frames = @ /\ img = "frame"]
    ELSE NoRun(TRUE)

Store(r, now, img, face) ==
    /\ frame_count' = r.frame_count
    /\ no_face_count' = r.no_face_count
    /\ PANLEFT' = r.PANLEFT
    /\ scanning_state' = r.scanning_state
    /\ scan_count' = r.scan_count
    /\ state_start_time' = Window(now, r.state_start_time).state_start_time
    /\ current_time' = Window(now, r.state_start_time).current_time
    /\ current_antenna_mode' = r.antenna_mode
    /\ target_pan' = r.target_pan
    /\ target_roll' = r.target_roll
    /\ target_pitch' = r.target_pitch
    /\ movement_command' = r.movement_command
    /\ scan_history' = IF face THEN <<0, 0>>
                       ELSE IF ScanAccepted(r) THEN <<scan_history[2], r.target_pan>>
                       ELSE scan_history
    /\ image' = img
    /\ face_detected' = face
    /\ prev_state' = scanning_state
    /\ elapsed' = IF img = "none" THEN elapsed
                  ELSE Min(Elapsed(now, state_start_time), TimeCap)
    /\ scan_run' = Counted(r, img)
    /\ self_scanning_state' = r.self_scanning_state
    /\ UNCHANGED variant

\* the fields of the threaded "robot" copy, untouched by a sequential tick
RobotIdle == UNCHANGED <<conversation_active, running, il_pc, threads>>

\* a tick without a frame that still counts a frame without a face
NoFrame_CountsNoFace(dt) ==
    /\ il_pc = "off"
    /\ Store([Self EXCEPT !.no_face_count = IncNoFace(@)], current_time + dt,
             "none", FALSE)
    /\ RobotIdle

\* process_frame returned None / "continue": only frame_count has changed
NoFrame(dt) ==
    /\ il_pc = "off"
    /\ Store(Self, current_time + dt, "none", FALSE)
    /\ RobotIdle

\* FaceTrackingSystem._main_loop around process_frame
FlaskTick(dt, face, movement, actual, mag, roll) ==
    /\ variant = "flask"
    /\ LET now == current_time + dt
           r == process_frame(Self, now, face, movement, mag, roll)
           t == MainLoopTarget(r.movement_command,
                               [pan |-> target_pan, roll |-> target_roll,
                                pitch |-> target_pitch], actual)
       IN  Store([r EXCEPT !.target_pan = t.pan, !.target_roll = t.roll,
                           !.target_pitch = t.pitch], now, "frame", face)
    /\ RobotIdle

\* ReachyFaceTracker._tracking_loop
RftTick(dt, face, movement, actual, mag, roll) ==
    /\ variant = "rft"
    /\ Store(tracking_loop(Self, current_time + dt, face, movement, actual, mag, roll),
             current_time + dt, "frame", face)
    /\ RobotIdle

\* "robot", the loop body run as one step
RobotTick(dt, face, movement, actual, mag, roll) ==
    /\ variant = "robot"
    /\ il_pc = "off"
    /\ Store(robot_loop(Self, conversation_active, current_time + dt, face,
                        movement, actual, mag, roll),
             current_time + dt, "frame", face)
    /\ RobotIdle

\* the fields a step of interaction_loop leaves alone
TrackerIdle ==
    UNCHANGED <<variant, frame_count, no_face_count, PANLEFT, scanning_state,
                scan_count, state_start_time, current_time, target_pan,
                target_roll, target_pitch, image, face_detected,
                movement_command, scan_history, prev_state, elapsed, scan_run,
                self_scanning_state, aux>>

\* the tracking tick and interaction_loop both at rest
TickIdle ==
    UNCHANGED <<variant, frame_count, no_face_count, PANLEFT, scanning_state,
                scan_count, state_start_time, current_time, target_pan,
                target_roll, target_pitch, image, face_detected,
                movement_command, scan_history, prev_state, elapsed, scan_run,
                self_scanning_state, current_antenna_mode, conversation_active,
                running, il_pc, threads>>

\* interaction_loop seen from the tracking loop: conversation_active = True
\* and the antenna mode "talking" (robot.py lines 68-69)
ConversationStarts ==
    /\ variant = "robot"
    /\ il_pc = "off"
    /\ ~conversation_active
    /\ conversation_active' = TRUE
    /\ current_antenna_mode' = "talking"
    /\ TrackerIdle
    /\ UNCHANGED <<running, il_pc, threads>>

\* the conversation timeout: conversation_active = False (robot.py line 85)
ConversationEnds ==
    /\ variant = "robot"
    /\ il_pc = "off"
    /\ conversation_active
    /\ conversation_active' = FALSE
    /\ TrackerIdle
    /\ UNCHANGED <<current_antenna_mode, running, il_pc, threads>>

----------------------------------------------------------------------------
(* The motion planner: ROIController of the "flask" copy and               *)
(* FaceTrackingController of the "rft" copy, the same code with different  *)
(* parameters.  Planner timestamps are integers in hundredths of a second. *)
(* A smoothed error is an exact fraction: smoothed_error_x counts units of *)
(* 1 / (frame_width * ErrScale), smoothed_error_y units of                 *)
(* 1 / (frame_height * ErrScale); a pan (roll) adjustment counts the same  *)
(* units.  ErrScale leaves room for MaxSmooth exact smoothing steps.       *)

\* most smoothing steps taken by one planner
MaxSmooth == 3

\* the camera's frame size, as the constructor receives it
FRAME_WIDTH == 640
FRAME_HEIGHT == 480

RECURSIVE Pow(_, _)
Pow(b, n) == IF n = 0 THEN 1 ELSE b * Pow(b, n - 1)

RECURSIVE GCD(_, _)
GCD(a, b) == IF b = 0 THEN a ELSE GCD(b, a % b)

ErrScale == Pow(10, MaxSmooth)

\* no planner object (the "robot" copy computes its movement inline)
NoPlanner == [type |-> "none"]

\* ROIController.__init__ / FaceTrackingController.__init__
NewROIController(v) ==
    [type |-> v,
     frame_width |-> FRAME_WIDTH, frame_height |-> FRAME_HEIGHT,
     roi_width_ratio |-> 40,
     roi_height_ratio |-> IF v = "flask" THEN 35 ELSE 40,
     last_movement_time |-> 0,
     movement_interval |-> IF v = "flask" THEN 5 ELSE 10,
     min_movement_threshold |-> IF v = "flask" THEN 5 ELSE 10,
     smoothing_factor |-> IF v = "flask" THEN 5 ELSE 7,
     movement_gain |-> IF v = "flask" THEN 75 ELSE 50,
     smoothed_error_x |-> 0, smoothed_error_y |-> 0]

\* get_roi_bounds: int() truncates, and every operand is non-negative
get_roi_bounds(self) ==
    LET roi_w == (self.frame_width * self.roi_width_ratio) \div 100
        roi_h == (self.frame_height * self.roi_height_ratio) \div 100
    IN  [x1 |-> (self.frame_width - roi_w) \div 2,
         y1 |-> (self.frame_height - roi_h) \div 2,
         x2 |-> (self.frame_width + roi_w) \div 2,
         y2 |-> (self.frame_height + roi_h) \div 2]

\* a dead zone that leaves its boundary out
is_in_roi_Open(self, face_x, face_y) ==
    LET b == get_roi_bounds(self)
    IN  b.x1 < face_x /\ face_x < b.x2 /\ b.y1 < face_y /\ face_y < b.y2

\* is_in_roi: x1 <= face_x <= x2 and y1 <= face_y <= y2
is_in_roi(self, face_x, face_y) ==
    LET b == get_roi_bounds(self)
    IN  b.x1 <= face_x /\ face_x <= b.x2 /\ b.y1 <= face_y /\ face_y <= b.y2

\* a rate limit that never rejects
RateLimited_Never(self, now) == FALSE

\* current_time - self.last_movement_time < self.movement_interval
RateLimited(self, now) == now - self.last_movement_time < self.movement_interval

\* error_x = (face_x - frame_center_x) / frame_width, in smoothed-error units
ErrorOf(face, size) == ((2 * face - size) * ErrScale) \div 2

\* a smoother that weights the new error with smoothing_factor
Smooth_Swapped(self, error, smoothed) ==
    (self.smoothing_factor * error
        + (10 - self.smoothing_factor) * smoothed) \div 10

\* alpha * error + smoothing_factor * smoothed, alpha = 1 - smoothing_factor
Smooth(self, error, smoothed) ==
    ((10 - self.smoothing_factor) * error
        + self.smoothing_factor * smoothed) \div 10

Abs(x) == IF x < 0 THEN 0 - x ELSE x

\* a^2 + b^2 in three base-1000 digits, most significant first (a, b < 10^6)
SumSq(a, b) ==
    LET B  == 1000
        lo == (a % B) * (a % B) + (b % B) * (b % B)
        mi == 2 * ((a \div B) * (a % B) + (b \div B) * (b % B)) + lo \div B
        hi == (a \div B) * (a \div B) + (b \div B) * (b \div B) + mi \div B
    IN  <<hi, mi % B, lo % B>>

\* lexicographic order of two digit triples
DigitsLess(p, q) ==
    \/ p[1] < q[1]
    \/ p[1] = q[1] /\ p[2] < q[2]
    \/ p[1] = q[1] /\ p[2] = q[2] /\ p[3] < q[3]

\* movement_magnitude < min_movement_threshold, where movement_magnitude is
\* sqrt(pan_adjustment^2 + roll_adjustment^2).  Both sides are multiplied by
\* frame_width * frame_height * ErrScale / (gcd(width, height) * gain) and
\* squared.
BelowThreshold(self, sx, sy) ==
    LET u == GCD(self.frame_width, self.frame_height)
        a == Abs(sx) * (self.frame_height \div u)
        b == Abs(sy) * (self.frame_width \div u)
        t == (self.min_movement_threshold * (self.frame_width \div u)
                 * self.frame_height * (ErrScale \div 10))
             \div self.movement_gain
    IN  a < t /\ b < t /\ DigitsLess(SumSq(a, b), SumSq(t, 0))

\* a planner without the magnitude test
calculate_movement_NoThreshold(self, face_x, face_y, now) ==
    IF RateLimited(self, now) THEN [self |-> self, movement |-> <<>>]
    ELSE IF is_in_roi(self, face_x, face_y) THEN [self |-> self, movement |-> <<>>]
    ELSE LET sx == Smooth(self, ErrorOf(face_x, self.frame_width),
                          self.smoothed_error_x)
             sy == Smooth(self, ErrorOf(face_y, self.frame_height),
                          self.smoothed_error_y)
             smoothed == [self EXCEPT !.smoothed_error_x = sx,
                                      !.smoothed_error_y = sy]
         IN  [self |-> [smoothed EXCEPT !.last_movement_time = now],
              movement |-> <<(0 - sx) * self.movement_gain,
                             (0 - sy) * self.movement_gain>>]

\* calculate_movement: the planner after the call and the value returned
\* (<<>> for None)
\* a planner that stamps last_movement_time on every call that reaches the
\* magnitude test
calculate_movement_StampsRejected(self, face_x, face_y, now) ==
    IF RateLimited(self, now) THEN [self |-> self, movement |-> <<>>]
    ELSE IF is_in_roi(self, face_x, face_y) THEN [self |-> self, movement |-> <<>>]
    ELSE LET sx == Smooth(self, ErrorOf(face_x, self.frame_width),
                          self.smoothed_error_x)
             sy == Smooth(self, ErrorOf(face_y, self.frame_height),
                          self.smoothed_error_y)
             smoothed == [self EXCEPT !.smoothed_error_x = sx,
                                      !.smoothed_error_y = sy,
                                      !.last_movement_time = now]
         IN  IF BelowThreshold(self, sx, sy)
             THEN [self |-> smoothed, movement |-> <<>>]
             ELSE [self |-> smoothed,
                   movement |-> <<(0 - sx) * self.movement_gain,
                                  (0 - sy) * self.movement_gain>>]

calculate_movement(self, face_x, face_y, now) ==
    IF RateLimited(self, now) THEN [self |-> self, movement |-> <<>>]
    ELSE IF is_in_roi(self, face_x, face_y) THEN [self |-> self, movement |-> <<>>]
    ELSE LET sx == Smooth(self, ErrorOf(face_x, self.frame_width),
                          self.smoothed_error_x)
             sy == Smooth(self, ErrorOf(face_y, self.frame_height),
                          self.smoothed_error_y)
             smoothed == [self EXCEPT !.smoothed_error_x = sx,
                                      !.smoothed_error_y = sy]
         IN  IF BelowThreshold(self, sx, sy)
             THEN [self |-> smoothed, movement |-> <<>>]
             ELSE [self |-> [smoothed EXCEPT !.last_movement_time = now],
                   movement |-> <<(0 - sx) * self.movement_gain,
                                  (0 - sy) * self.movement_gain>>]

----------------------------------------------------------------------------
(* Actuation: the interpolation of the actuated position toward the target *)
(* and the goal positions written to the neck.  Targets and joint readings *)
(* are whole degrees; actuated positions and goals count units of          *)
(* 1 / AngleScale degrees, which leaves room for MaxInterp exact steps.    *)

\* most interpolation steps of one session
MaxInterp == 2

AngleScale == Pow(10, MaxInterp)

\* self.INTERPOLATION_RATE of each copy, in tenths
INTERPOLATION_RATE(v) == IF v = "flask" THEN 5 ELSE 3

\* degrees in units of 1 / AngleScale
Scaled(deg) == IF IsNaN(deg) THEN NaN ELSE deg * AngleScale

\* current += (target - current) * INTERPOLATION_RATE
Interpolate(actuated, target, rate) ==
    IF IsNaN(actuated) \/ IsNaN(target) THEN NaN
    ELSE actuated + ((target - actuated) * rate) \div 10

\* the three axes of a head position
Pose(pan, roll, pitch) == [pan |-> pan, roll |-> roll, pitch |-> pitch]

\* FaceTrackingSystem._main_loop: all three axes are interpolated
FlaskInterpolate(cur, target, rate) ==
    Pose(Interpolate(cur.pan, Scaled(target.pan), rate),
         Interpolate(cur.roll, Scaled(target.roll), rate),
         Interpolate(cur.pitch, Scaled(target.pitch), rate))

\* _tracking_loop and _loop: pan and roll are interpolated, current_pitch is
\* never assigned again
RftInterpolate(cur, target, rate) ==
    Pose(Interpolate(cur.pan, Scaled(target.pan), rate),
         Interpolate(cur.roll, Scaled(target.roll), rate),
         cur.pitch)

----------------------------------------------------------------------------
(* The interpolation line in floating point.  Python floats are binary     *)
(* with round-to-nearest, ties-to-even; the same arithmetic is kept here   *)
(* at a mantissa of Precision bits, so that the rounding of each of the    *)
(* three operations of  current += (target - current) * rate  is visible   *)
(* on small numbers.  A float is an integer count of the smallest step;    *)
(* 1.0 is One steps.                                                       *)

\* bits of the mantissa
Precision == 3
\* largest exponent of the floats tried as inputs
MaxExp == 2

Hi == Pow(2, Precision)
Lo == Hi \div 2
One == Hi

\* n / q rounded to the nearest integer, ties to the even one (n >= 0, q > 0)
RoundHalfEven(n, q) ==
    LET f == n \div q
        rem == n % q
    IN  IF 2 * rem < q THEN f
        ELSE IF 2 * rem > q THEN f + 1
        ELSE IF f % 2 = 0 THEN f ELSE f + 1

\* the spacing of the floats around n / q: the least power of two g, from
\* g up, with n / q < Hi * g
RECURSIVE Spacing(_, _, _)
Spacing(n, q, g) == IF n < Hi * g * q THEN g ELSE Spacing(n, q, 2 * g)

\* the float nearest to n / q
fl(n, q) ==
    LET m == Abs(n)
        g == Spacing(m, q, 1)
        k == RoundHalfEven(m, q * g) * g
    IN  IF n < 0 THEN 0 - k ELSE k

\* a step that adds the whole difference whatever the rate
InterpolateFloat_Jump(actuated, target, rate) ==
    LET d == fl(target - actuated, 1)
        p == fl(d * One, One)
    IN  fl(actuated + 2 * p, 1)

\* current += (target - current) * rate, each operation rounded; rate counts
\* steps of 1 / One
InterpolateFloat(actuated, target, rate) ==
    LET d == fl(target - actuated, 1)
        p == fl(d * rate, One)
    IN  fl(actuated + p, 1)

\* the floats tried as positions and targets
Floats ==
    LET mags == (0 .. Hi - 1) \cup
                { m * Pow(2, e) : m \in Lo .. Hi - 1, e \in 1 .. MaxExp }
    IN  mags \cup { 0 - m : m \in mags }

\* the rates in (0, 1]
Rates == 1 .. One

\* no interpolation under study
NoStep == [before |-> 0, actuated |-> 0, target |-> 0, rate |-> One, steps |-> 0]

InitInterp == interp = NoStep

\* no shutdown routine called yet; enable_antenna is the constructor's
\* argument and decides whether there is an antenna loop; in_body says that
\* the tracking thread has passed its while test and is inside the loop body
NoShutdown(enable_antenna) ==
    [routine |-> "none", pc |-> "idle", enable_antenna |-> enable_antenna,
     antenna_running |-> enable_antenna, neutral |-> 0, flags_clear |-> FALSE,
     raised |-> FALSE, in_body |-> FALSE]

InitNoShutdown == shutdown = NoShutdown(TRUE) /\ antenna_threads = 1

\* Python's None where a number is expected
None == 0 - 999999

\* float(v) if v is not None else None
FloatOrNone(v) == v

\* the truth value Python gives a number or None in `if v`
Truthy(v) == v # None /\ v # 0

\* process_frame's 'face_position', which _main_loop publishes as it is: a
\* dict in every case, holding None twice when no face was detected
FlaskFacePosition(face_x, face_y) ==
    [is_null |-> FALSE, x |-> FloatOrNone(face_x), y |-> FloatOrNone(face_y)]

\* _tracking_loop's {'x': float(face_x), 'y': float(face_y)} if face_x else None
RftFacePosition(face_x, face_y) ==
    IF Truthy(face_x) THEN [is_null |-> FALSE, x |-> face_x, y |-> face_y]
    ELSE [is_null |-> TRUE, x |-> None, y |-> None]

\* no snapshot published yet
NoMetadata ==
    [published |-> FALSE, face_detected |-> FALSE,
     face_position |-> [is_null |-> TRUE, x |-> None, y |-> None],
     head_position |-> Pose(0, 0, 0), tracking_state |-> "idle",
     antenna_mode |-> "idle"]

InitMetadata == metadata = NoMetadata

\* a file that does not exist, one being written, one written completely
Absent == [state |-> "absent", id |-> 0]
Partial(id) == [state |-> "partial", id |-> id]
Complete(id) == [state |-> "complete", id |-> id]

\* the callers of CameraFrameProvider: two threads of the tracking process
\* that publish, a reader in the same process, and a reader in another
\* process (the web application), which has its own copy of _frame_lock
Publishers == {"pub1", "pub2"}
Readers == {"reader", "external"}
SharesLock(c) == c # "external"

\* nothing published, nobody inside the class
NewProvider(platform) ==
    [platform |-> platform,
     files |-> [frame |-> Absent, temp |-> Absent],
     lock |-> "free",
     pc |-> [c \in Publishers \cup Readers |-> "idle"],
     attempt |-> [c \in Publishers |-> 0],
     written |-> 0,
     result |-> [c \in Readers |-> Absent]]

InitProvider == provider = NewProvider("Linux")

\* the antenna loop of one implementation ("controller" is
\* _antenna_controller, the same in ReachyMovementController and
\* ReachyFaceTracker; "robot" is AntennaController._loop), constructed with
\* mode "idle" and about to read it for the first time
NewAnimator(impl) ==
    [impl |-> impl, mode |-> "idle", pc |-> "top", beat |-> "none",
     moves |-> <<>>, commands |-> <<>>, wait |-> 0, changed |-> FALSE,
     broken |-> FALSE, raised |-> FALSE, age |-> 0, acted |-> TRUE]

\* the callers of the send methods of ProxyClient: the tracking loop and
\* the client's own queue thread
Callers == {"main_loop", "queue_thread"}

\* the joints sent in the runs: two of JOINT_LIMITS and one without limits
Joints == {"neck_yaw", "camera"}

\* a caller outside the send methods
NoSend == [pc |-> "idle", current_time |-> 0, force |-> FALSE,
           positions |-> <<>>, returned |-> "none"]

\* no emission yet.  previous is the time of the emission without force
\* before this one, -1 if there was none
NoEmission == [emitted |-> FALSE, to_send |-> <<>>, positions |-> <<>>,
               force |-> FALSE, time |-> 0, previous |-> 0 - 1]

\* ProxyClient.__init__, then connected.  time.time() is far from the
\* initial last_send_time 0: the clock, in hundredths of a second, starts a
\* full interval after it.  plain_time is the time of the last emission
\* without force, overlap whether two calls have ever been under way at once
NewProxy ==
    [last_send_time |-> 0, clock |-> 5,
     last_sent_positions |-> [j \in Joints |-> None],
     call |-> [c \in Callers |-> NoSend], emission |-> NoEmission,
     plain_time |-> 0 - 1, overlap |-> FALSE]

\* the HTTP requests served at once
Requests == {"request1", "request2"}

\* global_variables.tracking_process = None and no request under way.
\* Processes are numbered from 1 in the order they are launched, 0 is None;
\* alive holds the launched processes that have not exited; overlap tells
\* whether two requests have ever been under way at once
NewEndpoint ==
    [tracking_process |-> 0, alive |-> {}, spawned |-> 0,
     pc |-> [r \in Requests |-> "idle"],
     action |-> [r \in Requests |-> "none"],
     success |-> [r \in Requests |-> FALSE],
     overlap |-> FALSE]

\* the parts that stand still beside the tracking tick
InitBeside ==
    /\ animator = NewAnimator("controller")
    /\ proxy = NewProxy
    /\ endpoint = NewEndpoint


\* the session before its loop starts
NewSession ==
    [pc |-> "new", steps |-> 0, tick |-> "none", raised |-> FALSE,
     movement |-> <<>>, actual |-> <<0, 0>>,
     target_before |-> Pose(0, 0, 0), current_before |-> Pose(0, 0, 0)]

\* the call record before any call
NoCall ==
    [calls |-> 0, time |-> TimeCap, face_x |-> 0, face_y |-> 0, gap |-> 0,
     since_move |-> 0, in_roi |-> FALSE, movement |-> <<>>, moved_before |-> FALSE,
     steps |-> 0, run |-> 0, run_face |-> <<0, 0>>, run_start |-> <<0, 0>>]

\* the planner of the copy, not yet called
InitPlanner ==
    /\ roi_controller = IF variant \in {"flask", "rft"}
                        THEN NewROIController(variant) ELSE NoPlanner
    /\ planner_call = NoCall

\* the actuation side before the loop starts, the neck at rest at 0
InitActuation ==
    /\ current_pos = Pose(0, 0, 0)
    /\ goal_position = Pose(0, 0, 0)
    /\ session = NewSession

InitAux ==
    /\ InitPlanner
    /\ present_position = Pose(0, 0, 0)
    /\ InitActuation
    /\ InitInterp
    /\ InitNoShutdown
    /\ InitMetadata
    /\ InitProvider
    /\ InitBeside

\* the state every copy is constructed in, the ticks of a scanning run
\* counted or not
InitCounting(counting) ==
    /\ frame_count = 0
    /\ no_face_count = 0
    /\ PANLEFT = TRUE
    /\ scanning_state = "idle"
    /\ scan_count = 0
    /\ state_start_time = 0
    /\ current_time = TimeCap
    /\ current_antenna_mode = "idle"
    /\ target_pan = 0
    /\ target_roll = 0
    /\ target_pitch = 0
    /\ image = "frame"
    /\ face_detected = FALSE
    /\ movement_command = NoCommand
    /\ scan_history = <<0, 0>>
    /\ prev_state = "idle"
    /\ elapsed = TimeCap
    /\ self_scanning_state = "unset"
    /\ conversation_active = FALSE
    /\ running = FALSE
    /\ threads = <<>>
    /\ scan_run = NoRun(counting)

InitFields == InitCounting(FALSE)

InitTick ==
    /\ variant \in {"flask", "rft", "robot"}
    /\ InitFields
    /\ il_pc = "off"
    /\ InitAux

InitScan ==
    /\ variant \in {"flask", "rft"}
    /\ InitFields
    /\ il_pc = "off"
    /\ InitAux

InitRobotTick ==
    /\ variant = "robot"
    /\ InitFields
    /\ il_pc = "off"
    /\ InitAux

\* the planner's results tried on a face tick: none or one adjustment
Movements == {<<>>, <<5, 0>>}
\* the actuator's present (pan, roll) read on an accepted movement
Actuals == {<<0, 0>>}

\* Clock advances offered to a tick.  state_start_time is read only in the
\* timed states, so the fine clock is offered there; a tick taken in idle or
\* scanning sees one coarse advance.
FineSteps == IF scanning_state \in {"idle", "scanning"} THEN {TimeCap} ELSE 0..MaxDt

\* Clock advances of the coarse clock: none, or past every threshold
CoarseSteps == {0, TimeCap}

\* random.uniform is called only on a scan attempt: the draws offered to a tick
Draw(S, dflt) ==
    IF scanning_state = "scanning" /\ ScanDue(IncFrame(frame_count)) THEN S ELSE {dflt}

\* the ticks of the single-threaded copies over the given inputs
Ticks(dts, mags, rolls) ==
    /\ \E dt \in dts :
           \/ \E mv \in Movements, act \in Actuals :
                  \/ FlaskTick(dt, TRUE, mv, act, PAN_MIN, 0)
                  \/ RftTick(dt, TRUE, mv, act, PAN_MIN, 0)
           \/ \E mag \in Draw(mags, PAN_MIN), roll \in Draw(rolls, 0) :
                  \/ FlaskTick(dt, FALSE, <<>>, <<0, 0>>, mag, roll)
                  \/ RftTick(dt, FALSE, <<>>, <<0, 0>>, mag, roll)
    /\ UNCHANGED aux

\* the ticks of the "robot" loop run as one step each
RobotTicks ==
    /\ \E dt \in FineSteps, face \in BOOLEAN :
           RobotTick(dt, face, <<>>, <<0, 0>>, PAN_MIN, 0)
    /\ UNCHANGED aux

\* frames are missing only on the first ticks of a scan cadence and on its
\* last, the tick on which a scan attempt would be due
MaxMissing == 1

\* a tick of the single-threaded copies that found no frame
NoFrames(dts) ==
    /\ frame_count < MaxMissing \/ frame_count = SCAN_EVERY - 1
    /\ \E dt \in dts : NoFrame(dt)
    /\ UNCHANGED aux

\* Fine clock, one scan waypoint
NextTime ==
    \/ Ticks(FineSteps, {PAN_MIN}, {0})
    \/ NoFrames(FineSteps)
    \/ RobotTicks
    \/ ConversationStarts
    \/ ConversationEnds

SpecTime == InitTick /\ [][NextTime]_vars

\* Coarse clock, scan waypoints at both ends of the random ranges
NextScan ==
    \/ Ticks(CoarseSteps, {PAN_MIN, PAN_MAX}, {0 - ROLL_MAX, ROLL_MAX})
    \/ NoFrames(CoarseSteps)

SpecScan == InitScan /\ [][NextScan]_vars

\* The "robot" loop alone, its thread always scheduled again
NextRobotTick ==
    \/ RobotTicks
    \/ ConversationStarts
    \/ ConversationEnds

FairSpecRobot == InitRobotTick /\ [][NextRobotTick]_vars /\ WF_vars(RobotTicks)

----------------------------------------------------------------------------
(* "robot" with its threads: interaction_loop on the main thread and the   *)
(* tracking threads TrackingController.start() creates.  A tick is two     *)
(* steps, split where it reads parent.conversation_active; every other     *)
(* field the tick touches is written by tracking threads only.             *)

\* most tracking threads ever started
MaxThreads == 2
\* most ticks begun in the threaded runs (frame_count counts them)
MaxFrames == 8

NewThread == [pc |-> "top", face |-> FALSE, conv |-> FALSE]

\* the loop body up to the read of conversation_active (tracking.py 70-92
\* on a face, 70-128 without); without a frame the tick ends here
ThreadBegin(t, dt, img, face) ==
    /\ threads[t].pc = "top"
    /\ running
    /\ frame_count < MaxFrames
    /\ LET now == current_time + dt
           f   == IF img = "frame" /\ face THEN RobotReset(Self) ELSE Self
       IN  /\ frame_count' = f.frame_count
           /\ no_face_count' = f.no_face_count
           /\ scan_count' = f.scan_count
           /\ scanning_state' = f.scanning_state
           /\ current_time' = Window(now, state_start_time).current_time
           /\ state_start_time' = Window(now, state_start_time).state_start_time
    /\ image' = img
    /\ threads' = IF img = "frame"
                  THEN [threads EXCEPT ![t] = [pc |-> "act", face |-> face,
                                               conv |-> conversation_active]]
                  ELSE threads
    /\ UNCHANGED <<variant, PANLEFT, current_antenna_mode, target_pan, target_roll,
                   target_pitch, face_detected, movement_command, scan_history,
                   prev_state, elapsed, scan_run, self_scanning_state, conversation_active,
                   running, il_pc, aux>>

\* the rest of the loop body, acting on the value read from the flag
ThreadAct(t, movement, actual, mag, roll) ==
    /\ threads[t].pc = "act"
    /\ LET self == Fields(frame_count)
           r == IF threads[t].face
                THEN RobotFace(self, threads[t].conv, movement, actual)
                ELSE RobotNoFace(self, threads[t].conv, current_time, mag, roll)
       IN  Store(r, current_time, "frame", threads[t].face)
    /\ threads' = [threads EXCEPT ![t] = NewThread]
    /\ UNCHANGED <<conversation_active, running, il_pc, aux>>

\* interaction_loop is split at its writes to the fields the tracking
\* threads read (running, conversation_active, the antenna mode); what lies
\* between two such writes touches nothing shared and rides with the next.

\* top of the loop with no conversation: self.start(), where
\* TrackingController.start() starts a thread unless running
IlStart ==
    /\ il_pc = "top"
    /\ ~conversation_active
    /\ running \/ Len(threads) < MaxThreads
    /\ running' = TRUE
    /\ threads' = IF running THEN threads ELSE Append(threads, NewThread)
    /\ il_pc' = "set_conv"
    /\ TrackerIdle
    /\ UNCHANGED <<current_antenna_mode, conversation_active>>

\* self.conversation_active = True
IlSetConv ==
    /\ il_pc = "set_conv"
    /\ conversation_active' = TRUE
    /\ il_pc' = "set_talking"
    /\ TrackerIdle
    /\ UNCHANGED <<current_antenna_mode, running, threads>>

\* self.antenna_controller.current_antenna_mode = "talking", then
\* record_until_silence and the speech handling, back to the top
IlSetTalking ==
    /\ il_pc = "set_talking"
    /\ current_antenna_mode' = "talking"
    /\ il_pc' = "top"
    /\ TrackerIdle
    /\ UNCHANGED <<conversation_active, running, threads>>

\* silence past the conversation timeout: self.stop(), where
\* TrackingController.pause() clears running
IlStop ==
    /\ il_pc = "top"
    /\ conversation_active
    /\ Len(threads) < MaxThreads
    /\ running' = FALSE
    /\ il_pc' = "clear_conv"
    /\ TrackerIdle
    /\ UNCHANGED <<current_antenna_mode, conversation_active, threads>>

\* self.conversation_active = False
IlClearConv ==
    /\ il_pc = "clear_conv"
    /\ conversation_active' = FALSE
    /\ il_pc' = "top"
    /\ TrackerIdle
    /\ UNCHANGED <<current_antenna_mode, running, threads>>

InitThreads ==
    /\ variant = "robot"
    /\ InitFields
    /\ il_pc = "top"
    /\ InitAux

NextThreads ==
    \/ \E t \in DOMAIN threads, img \in {"none", "frame"}, face \in BOOLEAN :
           ThreadBegin(t, TimeCap, img, face)
    \/ \E t \in DOMAIN threads : ThreadAct(t, <<>>, <<0, 0>>, PAN_MIN, 0)
    \/ IlStart
    \/ IlSetConv
    \/ IlSetTalking
    \/ IlStop
    \/ IlClearConv

SpecThreads == InitThreads /\ [][NextThreads]_vars

----------------------------------------------------------------------------
(* The motion planner called on its own *)

\* the call reaches the smoother
Smooths(self, face_x, face_y, now) ==
    ~RateLimited(self, now) /\ ~is_in_roi(self, face_x, face_y)

\* one call of calculate_movement, dt after the previous one
CalculateMovement(face_x, face_y, dt) ==
    /\ variant \in {"flask", "rft"}
    /\ LET self == roi_controller
           now  == planner_call.time + dt
           r    == calculate_movement(self, face_x, face_y, now)
           w    == Window(now, r.self.last_movement_time)
           fed  == Smooths(self, face_x, face_y, now)
           same == planner_call.run > 0 /\ planner_call.run_face = <<face_x, face_y>>
       IN  /\ fed => planner_call.steps < MaxSmooth
           /\ roi_controller' = [r.self EXCEPT !.last_movement_time = w.state_start_time]
           /\ planner_call' =
                  [calls |-> Min(planner_call.calls + 1, 2),
                   time |-> w.current_time,
                   face_x |-> face_x, face_y |-> face_y, gap |-> dt,
                   since_move |-> Min(now - self.last_movement_time, TimeCap),
                   in_roi |-> is_in_roi(self, face_x, face_y),
                   movement |-> r.movement,
                   moved_before |-> planner_call.movement # <<>>,
                   steps |-> IF fed THEN planner_call.steps + 1 ELSE planner_call.steps,
                   run |-> IF ~fed THEN planner_call.run
                           ELSE IF same THEN planner_call.run + 1 ELSE 1,
                   run_face |-> IF fed THEN <<face_x, face_y>>
                                ELSE planner_call.run_face,
                   run_start |-> IF fed /\ ~same
                                 THEN <<self.smoothed_error_x, self.smoothed_error_y>>
                                 ELSE planner_call.run_start]
    /\ TickIdle
    /\ UNCHANGED <<present_position, current_pos, goal_position, session, interp, shutdown,
                   antenna_threads,
                   metadata,
                   provider,
                   animator, proxy, endpoint>>

\* face positions tried: the dead zone's centre and two opposite corners,
\* points one pixel outside two of its edges, and one far to the right
Points ==
    LET b  == get_roi_bounds(roi_controller)
        cx == roi_controller.frame_width \div 2
        cy == roi_controller.frame_height \div 2
    IN  {<<cx, cy>>, <<b.x1, b.y1>>, <<b.x2, b.y2>>,
         <<b.x1 - 1, cy>>, <<cx, b.y2 + 1>>, <<600, cy>>}

\* times between two calls: one hundredth, just below the interval, the interval
Gaps == {1, roi_controller.movement_interval - 1, roi_controller.movement_interval}

NextPlanner == \E p \in Points, dt \in Gaps : CalculateMovement(p[1], p[2], dt)

\* movement_gain as process_frame and _tracking_loop pass it (50), and the
\* default of ROIController.calculate_movement (75)
MovementGains(v) == IF v = "flask" THEN {50, 75} ELSE {50}

InitCalls ==
    /\ variant \in {"flask", "rft"}
    /\ InitFields
    /\ il_pc = "off"
    /\ \E g \in MovementGains(variant) :
           roi_controller = [NewROIController(variant) EXCEPT !.movement_gain = g]
    /\ planner_call = NoCall
    /\ present_position = Pose(0, 0, 0)
    /\ InitActuation
    /\ InitInterp
    /\ InitNoShutdown
    /\ InitMetadata
    /\ InitProvider
    /\ InitBeside

SpecPlanner == InitCalls /\ [][NextPlanner]_vars

----------------------------------------------------------------------------
(* A session of the tracking loop with its actuation: the start of the     *)
(* loop, ticks that reach the goal-position writes, ticks that raise, and  *)
(* the neck moving under the loop.                                         *)

\* joint readings tried: at rest, turned, and a yaw that reports NaN
Positions == {Pose(0, 0, 0), Pose(10, 0 - 10, 10), Pose(NaN, 0, 0)}

\* the planner's results tried in a session: none, a large adjustment, and
\* one below the robot's MIN_MOVEMENT_THRESHOLD
SessionMovements == {<<>>, <<5, 0>>, <<1, 1>>}

ScaledPose(p) == Pose(Scaled(p.pan), Scaled(p.roll), Scaled(p.pitch))

InitSession ==
    /\ variant \in {"flask", "rft", "robot"}
    /\ InitFields
    /\ il_pc = "off"
    /\ InitPlanner
    /\ present_position \in Positions
    /\ current_pos = Pose(0, 0, 0)
    /\ goal_position = ScaledPose(present_position)
    /\ session = NewSession
    /\ InitInterp
    /\ InitNoShutdown
    /\ InitMetadata
    /\ InitProvider
    /\ InitBeside

\* FaceTrackingSystem.start, and the lines of _tracking_loop and _loop
\* before the while: the actuated position is read from the joints and
\* becomes the target
SessionStart ==
    /\ session.pc = "new"
    /\ current_pos' = ScaledPose(present_position)
    /\ target_pan' = present_position.pan
    /\ target_roll' = present_position.roll
    /\ target_pitch' = present_position.pitch
    /\ session' = [session EXCEPT !.pc = "running"]
    /\ UNCHANGED <<variant, frame_count, no_face_count, PANLEFT, scanning_state,
                   scan_count, state_start_time, current_time,
                   current_antenna_mode, image, face_detected, movement_command,
                   scan_history, prev_state, elapsed, scan_run, self_scanning_state,
                   conversation_active, running, il_pc, threads,
                   roi_controller, planner_call, present_position, goal_position,
                   interp, shutdown,
                   antenna_threads,
                   metadata,
                   provider,
                   animator, proxy, endpoint>>

\* the tick of the copy that is running, reading the joints as they are
TickOf(face, movement) ==
    LET actual == <<present_position.pan, present_position.roll>>
    IN  \/ FlaskTick(TimeCap, face, movement, actual, PAN_MIN, 0)
        \/ RftTick(TimeCap, face, movement, actual, PAN_MIN, 0)
        \/ RobotTick(TimeCap, face, movement, actual, PAN_MIN, 0)

\* one iteration that reaches the goal-position writes: the tick, the
\* interpolation toward the targets it left, and the writes
TickAndActuate(face, movement) ==
    /\ session.pc = "running"
    /\ session.steps < MaxInterp
    /\ TickOf(face, movement)
    /\ LET target == Pose(target_pan', target_roll', target_pitch')
           rate   == INTERPOLATION_RATE(variant)
       IN  current_pos' = IF variant = "flask"
                          THEN FlaskInterpolate(current_pos, target, rate)
                          ELSE RftInterpolate(current_pos, target, rate)
    /\ goal_position' = current_pos'
    /\ session' = [pc |-> "running", steps |-> session.steps + 1,
                   tick |-> IF face THEN "face" ELSE "no_face",
                   raised |-> FALSE, movement |-> movement,
                   actual |-> <<present_position.pan, present_position.roll>>,
                   target_before |-> Pose(target_pan, target_roll, target_pitch),
                   current_before |-> current_pos]

\* an iteration that publishes nothing
ActuatedTick(face, movement) ==
    /\ TickAndActuate(face, movement)
    /\ UNCHANGED <<roi_controller, planner_call, present_position, interp, shutdown,
                   antenna_threads,
                   metadata,
                   provider,
                   animator, proxy, endpoint>>

\* an exception raised inside an iteration, after frame_count was counted.
\* _tracking_loop and _loop catch it inside the while and go on; _main_loop
\* has its try around the while and handles KeyboardInterrupt only, so the
\* exception leaves the loop and the finally clause calls stop()
TickRaises ==
    /\ session.pc = "running"
    /\ frame_count' = IncFrame(frame_count)
    /\ session' = [session EXCEPT !.raised = TRUE, !.tick = "raised",
                                  !.pc = IF variant = "flask" THEN "ended"
                                         ELSE "running"]
    /\ UNCHANGED <<variant, no_face_count, PANLEFT, scanning_state, scan_count,
                   state_start_time, current_time, current_antenna_mode,
                   target_pan, target_roll, target_pitch, image, face_detected,
                   movement_command, scan_history, prev_state, elapsed, scan_run,
                   self_scanning_state, conversation_active, running, il_pc,
                   threads, roi_controller, planner_call, present_position,
                   current_pos, goal_position, interp, shutdown,
                   antenna_threads,
                   metadata,
                   provider,
                   animator, proxy, endpoint>>

\* an iteration that found no frame: "continue" before the interpolation and
\* the goal-position writes
FrameMissing ==
    /\ session.pc = "running"
    /\ session.steps < MaxInterp
    /\ NoFrame(TimeCap)
    /\ session' = [session EXCEPT !.tick = "no_frame", !.raised = FALSE]
    /\ UNCHANGED <<roi_controller, planner_call, present_position, current_pos,
                   goal_position, interp, shutdown, antenna_threads, metadata,
                   provider,
                   animator, proxy, endpoint>>

\* the neck is somewhere else at the next reading
JointMoves ==
    /\ present_position' \in Positions \ {present_position}
    /\ TickIdle
    /\ UNCHANGED <<roi_controller, planner_call, current_pos, goal_position,
                   session, interp, shutdown,
                   antenna_threads,
                   metadata,
                   provider,
                   animator, proxy, endpoint>>

NextSession ==
    \/ SessionStart
    \/ \E face \in BOOLEAN, mv \in SessionMovements :
           (face \/ mv = <<>>) /\ ActuatedTick(face, mv)
    \/ TickRaises
    \/ FrameMissing
    \/ JointMoves

SpecSession == InitSession /\ [][NextSession]_vars

-----------------------------------------------------------------------------
(* The goal-position writes one by one: neck_yaw, neck_roll, neck_pitch, in *)
(* that order, in move_head and at the end of the threaded loops' body.     *)

WriteOrder == <<"pan", "roll", "pitch">>

\* the goal positions when write number k raises: the axes before it have
\* their new value, the statements after it are not executed
WritesUpTo(goal, pos, k) ==
    [a \in {"pan", "roll", "pitch"} |->
        IF \E i \in 1..(k - 1) : WriteOrder[i] = a THEN pos[a] ELSE goal[a]]

\* what the iteration is remembered as when write number k raised
RaisedAt(k) == <<"pan_raised", "roll_raised", "pitch_raised">>[k]

\* an iteration whose goal-position write number k raises.  move_head has no
\* handler and _main_loop catches KeyboardInterrupt only, so the loop ends;
\* _tracking_loop and _loop catch the exception inside the while and go on
WriteRaises(face, movement, k) ==
    /\ session.pc = "running"
    /\ session.steps < MaxInterp
    /\ TickOf(face, movement)
    /\ LET target == Pose(target_pan', target_roll', target_pitch')
           rate   == INTERPOLATION_RATE(variant)
       IN  current_pos' = IF variant = "flask"
                          THEN FlaskInterpolate(current_pos, target, rate)
                          ELSE RftInterpolate(current_pos, target, rate)
    /\ goal_position' = WritesUpTo(goal_position, current_pos', k)
    /\ session' = [pc |-> IF variant = "flask" THEN "ended" ELSE "running",
                   steps |-> session.steps + 1,
                   tick |-> RaisedAt(k),
                   raised |-> TRUE, movement |-> movement,
                   actual |-> <<present_position.pan, present_position.roll>>,
                   target_before |-> Pose(target_pan, target_roll, target_pitch),
                   current_before |-> current_pos]
    /\ UNCHANGED <<roi_controller, planner_call, present_position, interp, shutdown,
                   antenna_threads, metadata, provider,
                   animator, proxy, endpoint>>

NextWrites ==
    \/ SessionStart
    \/ \E face \in BOOLEAN, mv \in SessionMovements :
           (face \/ mv = <<>>) /\ ActuatedTick(face, mv)
    \/ \E face \in BOOLEAN, mv \in SessionMovements, k \in 1..3 :
           (face \/ mv = <<>>) /\ WriteRaises(face, mv, k)
    \/ JointMoves

SpecWrites == InitSession /\ [][NextWrites]_vars

----------------------------------------------------------------------------
(* The interpolation line on its own: any position, target and rate, and   *)
(* the line applied tick after tick.                                       *)

InitStep ==
    /\ variant = "flask"
    /\ InitFields
    /\ il_pc = "off"
    /\ InitPlanner
    /\ present_position = Pose(0, 0, 0)
    /\ InitActuation
    /\ \E a \in Floats, t \in Floats, r \in Rates :
           interp = [before |-> a, actuated |-> a, target |-> t, rate |-> r,
                     steps |-> 0]
    /\ InitNoShutdown
    /\ InitMetadata
    /\ InitProvider
    /\ InitBeside

\* one tick's interpolation of the axis
InterpolationStep ==
    /\ interp.steps < MaxInterp
    /\ interp' = [interp EXCEPT
                     !.before = interp.actuated,
                     !.actuated = InterpolateFloat(interp.actuated, interp.target,
                                                   interp.rate),
                     !.steps = @ + 1]
    /\ TickIdle
    /\ UNCHANGED <<roi_controller, planner_call, present_position, current_pos,
                   goal_position, session, shutdown,
                   antenna_threads,
                   metadata,
                   provider,
                   animator, proxy, endpoint>>

NextStep == InterpolationStep

SpecStep == InitStep /\ [][NextStep]_vars

----------------------------------------------------------------------------
(* Shutdown: ReachyFaceTracker.stop_tracking of "rft", RobotController.stop *)
(* and RobotController.cleanup of "robot", run against the tracking         *)
(* threads.  A routine is split at its writes to the loops' flags and at    *)
(* its goto; the joins (timeout 2 s) and sleeps between them wait and       *)
(* write nothing.                                                           *)

Routines == IF variant = "rft" THEN {"stop_tracking"} ELSE {"stop", "cleanup"}

InitShutdown ==
    /\ variant \in {"rft", "robot"}
    /\ InitFields
    /\ il_pc = "off"
    /\ InitPlanner
    /\ present_position = Pose(0, 0, 0)
    /\ InitActuation
    /\ InitInterp
    /\ \E e \in BOOLEAN :
           /\ variant = "robot" => e
           /\ shutdown = NoShutdown(e)
           \* AntennaController.__init__ calls self.start(); the rft
           \* constructor starts the antenna thread if enable_antenna
           /\ antenna_threads = IF e THEN 1 ELSE 0
    /\ InitMetadata
    /\ InitProvider
    /\ InitBeside

\* the fields no shutdown step and no start touches
LoopIdle ==
    UNCHANGED <<variant, frame_count, no_face_count, PANLEFT, scanning_state,
                scan_count, state_start_time, current_time, target_pan,
                target_roll, target_pitch, image, face_detected,
                movement_command, scan_history, prev_state, elapsed, scan_run,
                self_scanning_state, current_antenna_mode, conversation_active,
                il_pc, roi_controller, planner_call, present_position,
                current_pos, goal_position, session, interp, metadata,
                   provider,
                   animator, proxy, endpoint>>

\* AntennaController.start(), called by RobotController.start(): the flag is
\* set and a new thread is started on _loop, whatever threads there are.
\* start_tracking of "rft" does not touch the antenna thread
AntennaStart ==
    IF variant = "robot"
    THEN /\ antenna_threads < MaxThreads
         /\ antenna_threads' = antenna_threads + 1
         /\ shutdown' = [shutdown EXCEPT !.antenna_running = TRUE]
    ELSE UNCHANGED <<shutdown, antenna_threads>>

\* while self.running: an antenna thread finds the flag clear and ends
AntennaExit ==
    /\ antenna_threads > 0
    /\ ~shutdown.antenna_running
    /\ antenna_threads' = antenna_threads - 1
    /\ UNCHANGED <<running, threads, shutdown>>
    /\ LoopIdle

\* start_tracking starts a thread when there is none alive;
\* RobotController.start restarts the antenna loop and
\* TrackingController.start starts a thread unless running is set
StartTracking ==
    /\ shutdown.pc \in {"idle", "ended"}
    /\ shutdown.routine # "cleanup"
    /\ LET alive == threads # <<>> /\ threads[Len(threads)].pc # "done"
           fresh == IF variant = "rft" THEN ~alive ELSE ~running
       IN  /\ fresh => Len(threads) < MaxThreads
           /\ running' = (running \/ fresh)
           /\ threads' = IF fresh THEN Append(threads, NewThread) ELSE threads
    /\ AntennaStart
    /\ LoopIdle

\* while self.tracking_thread_running: the flag is set, the thread enters
\* the loop body
RftThreadEnter(t) ==
    /\ variant = "rft"
    /\ threads[t].pc = "top"
    /\ ~shutdown.in_body
    /\ running
    /\ frame_count < MaxFrames
    /\ shutdown' = [shutdown EXCEPT !.in_body = TRUE]
    /\ UNCHANGED <<running, threads, antenna_threads>>
    /\ LoopIdle

\* the body of one iteration of _tracking_loop, up to its goal-position
\* writes; the flag is not read again before the next while test
RftThreadTick(t) ==
    /\ variant = "rft"
    /\ threads[t].pc = "top"
    /\ shutdown.in_body
    /\ \E face \in BOOLEAN : RftTick(TimeCap, face, <<>>, <<0, 0>>, PAN_MIN, 0)
    /\ shutdown' = [shutdown EXCEPT !.in_body = FALSE]
    /\ UNCHANGED <<roi_controller, planner_call, present_position, current_pos,
                   goal_position, session, interp, antenna_threads, metadata,
                   provider,
                   animator, proxy, endpoint>>

\* while self.tracking_thread_running: the flag is clear, the loop and the
\* thread end
RftThreadExit(t) ==
    /\ variant = "rft"
    /\ threads[t].pc = "top"
    /\ ~shutdown.in_body
    /\ ~running
    /\ threads' = [threads EXCEPT ![t].pc = "done"]
    /\ UNCHANGED <<running, shutdown, antenna_threads>>
    /\ LoopIdle

\* the steps of the tracking threads.  TrackingController._loop is
\* while True: if self.running: ..., so with the flag clear a robot thread
\* goes round without a step that changes anything, and it has no exit
ThreadSteps ==
    \/ \E t \in DOMAIN threads : RftThreadEnter(t)
    \/ \E t \in DOMAIN threads : RftThreadTick(t)
    \/ \E t \in DOMAIN threads : RftThreadExit(t)
    \/ \E t \in DOMAIN threads, img \in {"none", "frame"}, face \in BOOLEAN :
           variant = "robot" /\ ThreadBegin(t, TimeCap, img, face)
    \/ \E t \in DOMAIN threads :
           variant = "robot" /\ ThreadAct(t, <<>>, <<0, 0>>, PAN_MIN, 0)

\* a shutdown routine is called
RoutineBegins(r) ==
    /\ shutdown.pc \in {"idle", "ended"}
    /\ shutdown.routine # "cleanup"
    /\ threads # <<>>
    /\ shutdown' = [shutdown EXCEPT !.routine = r, !.pc = "tracking",
                                    !.neutral = 0, !.flags_clear = FALSE,
                                    !.raised = FALSE]
    /\ UNCHANGED <<running, threads>>
    /\ UNCHANGED antenna_threads
    /\ LoopIdle

\* self.tracking_thread_running = False; TrackingController.pause() and
\* TrackingController.stop(): self.running = False
StopTrackingLoop ==
    /\ shutdown.pc = "tracking"
    /\ running' = FALSE
    /\ shutdown' = [shutdown EXCEPT !.pc = "antenna"]
    /\ UNCHANGED threads
    /\ UNCHANGED antenna_threads
    /\ LoopIdle

\* tracking_thread.join(timeout=2) returns: the thread has ended, or it is
\* held up inside a loop body and the 2 s expire.  TrackingController._loop
\* has no exit, so the join of stop() always runs into its timeout, and
\* pause() does not join
JoinReturns ==
    IF variant = "rft"
    THEN shutdown.in_body \/ \A t \in DOMAIN threads : threads[t].pc = "done"
    ELSE TRUE

\* self.antenna_thread_running = False if enable_antenna;
\* AntennaController.stop(): self.running = False
StopAntennaLoop ==
    /\ shutdown.pc = "antenna"
    /\ JoinReturns
    /\ shutdown' = [shutdown EXCEPT !.pc = "neutral", !.antenna_running = FALSE]
    /\ UNCHANGED <<running, threads>>
    /\ UNCHANGED antenna_threads
    /\ LoopIdle

\* goto(neck_yaw 0, neck_roll 0, neck_pitch 0, l_antenna 0, r_antenna 0,
\* duration 1.0) of stop_tracking and RobotController.stop
ReturnToNeutral ==
    /\ shutdown.pc = "neutral"
    /\ shutdown.routine # "cleanup"
    /\ shutdown' = [shutdown EXCEPT
                       !.pc = "ended", !.neutral = @ + 1,
                       !.flags_clear = ~running /\ ~shutdown.antenna_running]
    /\ UNCHANGED <<running, threads>>
    /\ UNCHANGED antenna_threads
    /\ LoopIdle

\* cleanup: self.face_detection.close() on a RobotController, which has no
\* attribute face_detection; the AttributeError leaves cleanup before its
\* goto
CleanupRaises ==
    /\ shutdown.pc = "neutral"
    /\ shutdown.routine = "cleanup"
    /\ shutdown' = [shutdown EXCEPT !.pc = "ended", !.raised = TRUE]
    /\ UNCHANGED <<running, threads>>
    /\ UNCHANGED antenna_threads
    /\ LoopIdle

RoutineSteps ==
    \/ StopTrackingLoop
    \/ StopAntennaLoop
    \/ ReturnToNeutral
    \/ CleanupRaises

NextShutdown ==
    \/ StartTracking
    \/ ThreadSteps
    \/ AntennaExit
    \/ \E r \in Routines : RoutineBegins(r)
    \/ RoutineSteps

\* every thread that can take a step is scheduled again, and a routine
\* that was called runs on
FairSpecShutdown ==
    /\ InitShutdown
    /\ [][NextShutdown]_vars
    /\ WF_vars(ThreadSteps)
    /\ WF_vars(AntennaExit)
    /\ WF_vars(RoutineSteps)

----------------------------------------------------------------------------
(* The snapshot the flask and rft loops publish with each frame.           *)

\* centres of detected faces tried: at the left edge, on the frame's centre
\* and right of the dead zone
FaceCentres == {<<0, 240>>, <<320, 240>>, <<600, 240>>}

\* the metadata dict built at the end of the iteration
Metadata(face, face_x, face_y) ==
    [published |-> TRUE, face_detected |-> face,
     face_position |-> IF variant = "flask" THEN FlaskFacePosition(face_x, face_y)
                       ELSE RftFacePosition(face_x, face_y),
     head_position |-> current_pos',
     tracking_state |-> scanning_state',
     antenna_mode |-> current_antenna_mode']

\* one iteration that publishes its frame; face_x and face_y stay None
\* unless a face was detected
PublishingTick(face, centre, movement) ==
    /\ variant \in {"flask", "rft"}
    /\ TickAndActuate(face, movement)
    /\ metadata' = IF face THEN Metadata(face, centre[1], centre[2])
                   ELSE Metadata(face, None, None)
    /\ UNCHANGED <<roi_controller, planner_call, present_position, interp,
                   shutdown, antenna_threads, provider,
                   animator, proxy, endpoint>>

InitPublish ==
    /\ InitSession
    /\ variant \in {"flask", "rft"}

NextPublish ==
    \/ SessionStart
    \/ \E face \in BOOLEAN, c \in FaceCentres, mv \in SessionMovements :
           (face \/ (mv = <<>> /\ c = <<0, 240>>)) /\ PublishingTick(face, c, mv)
    \/ JointMoves

SpecPublish == InitPublish /\ [][NextPublish]_vars

----------------------------------------------------------------------------
(* CameraFrameProvider of frame_publisher.py: publish_frame writes the     *)
(* frame to FRAME_TEMP_PATH and renames it to FRAME_PATH; get_latest_frame *)
(* reads FRAME_PATH.  Both hold the class's _frame_lock, which callers in  *)
(* another process do not share.  FRAME_PATH is only ever replaced by the  *)
(* rename or removed, never written in place, so cv2.imread sees the file  *)
(* as it is at one moment.                                                 *)

\* most frames written in one run
MaxPublish == 2
\* max_retries of the rename loop
MAX_RETRIES == 3

\* a file that cv2.imwrite would write in place of the temporary one
WritePath_Direct == "frame"

\* the file cv2.imwrite writes: FRAME_TEMP_PATH
WritePath == "temp"

InitFrames ==
    /\ variant \in {"flask", "rft"}
    /\ InitFields
    /\ il_pc = "off"
    /\ InitPlanner
    /\ present_position = Pose(0, 0, 0)
    /\ InitActuation
    /\ InitInterp
    /\ InitNoShutdown
    /\ InitMetadata
    /\ \E platform \in {"Linux", "Windows"} : provider = NewProvider(platform)
    /\ InitBeside

\* the tracking loop and everything else stand still
ProviderOnly ==
    /\ TickIdle
    /\ UNCHANGED <<roi_controller, planner_call, present_position, current_pos,
                   goal_position, session, interp, shutdown, antenna_threads,
                   metadata, animator, proxy, endpoint>>

\* leaving the with block
Released(c) == IF SharesLock(c) THEN "free" ELSE provider.lock

\* the caller returns
Returns(c) == [provider EXCEPT !.pc[c] = "idle", !.lock = Released(c)]

\* with cls._frame_lock:
Acquire(c) ==
    /\ provider.pc[c] = "idle"
    /\ c \in Publishers => provider.written < MaxPublish
    /\ SharesLock(c) => provider.lock = "free"
    /\ provider' = [provider EXCEPT !.pc[c] = "locked",
                                    !.lock = IF SharesLock(c) THEN c ELSE @]
    /\ ProviderOnly

\* cv2.imwrite begins: the file exists with part of the new frame
WriteBegins(c) ==
    /\ c \in Publishers
    /\ provider.pc[c] = "locked"
    /\ provider' = [provider EXCEPT !.pc[c] = "writing",
                                    !.written = @ + 1,
                                    !.files[WritePath] = Partial(provider.written + 1)]
    /\ ProviderOnly

\* cv2.imwrite returns True: the file holds the whole frame
WriteEnds(c) ==
    /\ c \in Publishers
    /\ provider.pc[c] = "writing"
    /\ provider' = [provider EXCEPT !.pc[c] = "rename", !.attempt[c] = 0,
                                    !.files[WritePath] = Complete(@.id)]
    /\ ProviderOnly

\* cv2.imwrite returns False: publish_frame returns
WriteFails(c) ==
    /\ c \in Publishers
    /\ provider.pc[c] = "writing"
    /\ provider' = Returns(c)
    /\ ProviderOnly

\* the target has to be deleted first: Windows, and FRAME_PATH exists
MustUnlink == provider.platform = "Windows" /\ provider.files.frame # Absent

\* an attempt that failed: sleep and try again, or give the frame up
Retry(c) ==
    IF provider.attempt[c] < MAX_RETRIES - 1
    THEN [provider EXCEPT !.pc[c] = "rename", !.attempt[c] = @ + 1]
    ELSE Returns(c)

\* cls.FRAME_PATH.unlink()
Unlink(c) ==
    /\ c \in Publishers
    /\ provider.pc[c] = "rename"
    /\ MustUnlink
    /\ provider' = [provider EXCEPT !.pc[c] = "unlinked", !.files.frame = Absent]
    /\ ProviderOnly

\* unlink raises PermissionError: the file is open elsewhere
UnlinkFails(c) ==
    /\ c \in Publishers
    /\ provider.pc[c] = "rename"
    /\ MustUnlink
    /\ provider' = Retry(c)
    /\ ProviderOnly

\* cls.FRAME_TEMP_PATH.rename(cls.FRAME_PATH), then the metadata file and
\* the end of the with block
Rename(c) ==
    /\ c \in Publishers
    /\ provider.pc[c] = "unlinked" \/ (provider.pc[c] = "rename" /\ ~MustUnlink)
    /\ provider.files.temp # Absent
    /\ provider' = [Returns(c) EXCEPT !.files.frame = provider.files.temp,
                                      !.files.temp = Absent]
    /\ ProviderOnly

\* rename raises OSError: there is no temporary file, or on Windows the
\* target is in use
RenameFails(c) ==
    /\ c \in Publishers
    /\ provider.pc[c] = "unlinked" \/ (provider.pc[c] = "rename" /\ ~MustUnlink)
    /\ provider.files.temp = Absent \/ provider.platform = "Windows"
    /\ provider' = Retry(c)
    /\ ProviderOnly

\* if not cls.FRAME_PATH.exists(): return None, None
NoFrameYet(c) ==
    /\ c \in Readers
    /\ provider.pc[c] = "locked"
    /\ provider.files.frame = Absent
    /\ provider' = [Returns(c) EXCEPT !.result[c] = Absent]
    /\ ProviderOnly

\* FRAME_PATH exists
FrameExists(c) ==
    /\ c \in Readers
    /\ provider.pc[c] = "locked"
    /\ provider.files.frame # Absent
    /\ provider' = [provider EXCEPT !.pc[c] = "read"]
    /\ ProviderOnly

\* cv2.imread and the return: what the file holds now, or (None, None)
\* when it is gone
ReadFrame(c) ==
    /\ c \in Readers
    /\ provider.pc[c] = "read"
    /\ provider' = [Returns(c) EXCEPT !.result[c] = provider.files.frame]
    /\ ProviderOnly

NextFrames ==
    \E c \in Publishers \cup Readers :
        \/ Acquire(c)
        \/ WriteBegins(c)
        \/ WriteEnds(c)
        \/ WriteFails(c)
        \/ Unlink(c)
        \/ UnlinkFails(c)
        \/ Rename(c)
        \/ RenameFails(c)
        \/ NoFrameYet(c)
        \/ FrameExists(c)
        \/ ReadFrame(c)

SpecFrames == InitFrames /\ [][NextFrames]_vars

----------------------------------------------------------------------------
(* Properties *)

\* the last tick obtained a frame and found no face in it
NoFaceTick == image = "frame" /\ ~face_detected

\* C1: on a tick in which the detector reports a face, whatever the scan
\* state at its start, the scan state is idle and the no-face counter and the
\* scan-attempt counter are 0 after the tick.
C1_FaceResets ==
    (image = "frame" /\ face_detected) =>
        (scanning_state = "idle" /\ no_face_count = 0 /\ scan_count = 0)

\* a face tick taken in waiting, after scan attempts had been counted
C1_Witness ==
    /\ variant = "flask"
    /\ image = "frame" /\ face_detected
    /\ prev_state = "waiting"
    /\ scanning_state = "idle" /\ scan_count = 0

\* the edges of the scanning state machine
Edges ==
    {<<"idle", "scanning">>, <<"scanning", "giving_up">>, <<"giving_up", "sad">>,
     <<"sad", "looking_down">>, <<"looking_down", "waiting">>,
     <<"waiting", "scanning">>}

\* C3: in every step the scan state stays as it is, follows one edge of the
\* state machine, or is reset to idle by a tick that detected a face.
C3_OnlyEdges ==
    [][\/ scanning_state' = scanning_state
       \/ <<scanning_state, scanning_state'>> \in Edges
       \/ (face_detected' /\ image' = "frame" /\ scanning_state' = "idle")]_vars

\* the loop edge waiting -> scanning taken by a no-face tick
C3_Witness ==
    /\ variant = "flask"
    /\ NoFaceTick
    /\ prev_state = "waiting"
    /\ scanning_state = "scanning"

\* C4: in the single-threaded copies a no-face tick taken in idle adds one to
\* the no-face counter, which is below 60 in idle; the state stays idle with
\* antenna mode idle while the counter is below 60 and becomes scanning, with
\* scan-attempt count 0 and antenna mode scanning, on the tick that brings
\* the counter to 60.
C4_IdleUntilSixty ==
    [][(variant \in {"flask", "rft"} /\ scanning_state = "idle"
        /\ image' = "frame" /\ ~face_detected' /\ frame_count' # frame_count)
       => /\ no_face_count < NO_FACE_LIMIT
          /\ no_face_count' = no_face_count + 1
          /\ IF no_face_count' < NO_FACE_LIMIT
             THEN scanning_state' = "idle" /\ current_antenna_mode' = "idle"
             ELSE /\ scanning_state' = "scanning"
                  /\ scan_count' = 0
                  /\ current_antenna_mode' = "scanning"]_vars

\* the 60th consecutive no-face tick
C4_Witness ==
    /\ variant = "rft"
    /\ NoFaceTick
    /\ prev_state = "idle"
    /\ no_face_count = NO_FACE_LIMIT
    /\ scanning_state = "scanning"
    /\ current_antenna_mode = "scanning"

\* C5: in scanning the scan-attempt count is at most MAX_SCANS; a no-face
\* tick on the scan cadence adds one to it and, while the count does not
\* exceed MAX_SCANS, writes a scan waypoint and stays in scanning, and moves
\* to giving_up when the count exceeds MAX_SCANS; no other no-face tick in
\* scanning changes the count or the state.
C5_GivingUpThreshold ==
    [][(scanning_state = "scanning" /\ image' = "frame" /\ ~face_detected'
        /\ frame_count' # frame_count)
       => /\ scan_count <= MAX_SCANS(variant)
          /\ IF ScanDue(frame_count')
             THEN /\ scan_count' = scan_count + 1
                  /\ IF scan_count' <= MAX_SCANS(variant)
                     THEN /\ scanning_state' = "scanning"
                          /\ Abs(target_pan') \in PAN_MIN..PAN_MAX
                          /\ scan_history' = <<scan_history[2], target_pan'>>
                     ELSE /\ scanning_state' = "giving_up"
                          /\ scan_history' = scan_history
             ELSE /\ scan_count' = scan_count
                  /\ scanning_state' = "scanning"]_vars

\* MAX_SCANS = 1: the second trigger has moved the state to giving_up
C5_Witness ==
    /\ variant = "rft"
    /\ NoFaceTick
    /\ prev_state = "scanning"
    /\ scanning_state = "giving_up"
    /\ scan_count = 2
    /\ scan_history[2] # 0

\* C6: two consecutive accepted scan attempts with no face detected between
\* them set pan waypoints of opposite sign.
C6_ScanAlternates ==
    (scan_history[1] # 0) => (scan_history[1] * scan_history[2] < 0)

\* MAX_SCANS = 1: the two attempts lie on either side of a
\* giving_up / sad / looking_down / waiting cycle
C6_Witness ==
    /\ variant = "rft"
    /\ scan_history[1] = PAN_MAX
    /\ scan_history[2] = 0 - PAN_MIN

\* the limit of each timed state
Limit(st) ==
    CASE st = "giving_up"    -> GIVING_UP_TIME
      [] st = "sad"          -> SAD_TIME
      [] st = "looking_down" -> LOOKING_DOWN_TIME
      [] st = "waiting"      -> WAITING_TIME
      [] OTHER               -> 0

TimedStates == {"giving_up", "sad", "looking_down", "waiting"}

\* C7: a timed transition (giving_up -> sad, sad -> looking_down,
\* looking_down -> waiting, waiting -> scanning) is never taken by a tick
\* whose elapsed time in the state is below 1.5 s, 2.0 s, 3.0 s and 2.0 s.
C7_NeverEarly ==
    (NoFaceTick /\ prev_state \in TimedStates /\ elapsed < Limit(prev_state))
        => scanning_state = prev_state

\* a tick in giving_up at 1.4 s that stayed in giving_up
C7_Witness ==
    /\ variant = "flask"
    /\ NoFaceTick
    /\ prev_state = "giving_up"
    /\ elapsed = GIVING_UP_TIME - 1
    /\ scanning_state = "giving_up"

\* C8 as claimed: a no-face tick in a timed state whose elapsed time is at
\* or above the limit, the limit itself included, takes the transition.
C8_AtLimit ==
    (NoFaceTick /\ prev_state \in TimedStates /\ elapsed >= Limit(prev_state))
        => <<prev_state, scanning_state>> \in Edges

\* C8 as the code has it: a no-face tick in a timed state whose elapsed time
\* is above the limit takes the transition, and one at the limit or below
\* stays.
C8_AboveLimit ==
    (NoFaceTick /\ prev_state \in TimedStates)
        => IF elapsed > Limit(prev_state)
           THEN <<prev_state, scanning_state>> \in Edges
           ELSE scanning_state = prev_state

\* a tick in giving_up at 1.6 s that moved to sad
C8_Witness ==
    /\ variant = "flask"
    /\ NoFaceTick
    /\ prev_state = "giving_up"
    /\ elapsed = GIVING_UP_TIME + 1
    /\ scanning_state = "sad"

\* the antenna mode that belongs to a scan state
ModeOf(st) ==
    CASE st = "idle"      -> "idle"
      [] st = "scanning"  -> "scanning"
      [] st = "giving_up" -> "giving_up"
      [] OTHER            -> "sad"

\* C9: after every no-face tick of process_frame the antenna mode it
\* reports, which _main_loop passes to set_antenna_mode, is the one that
\* belongs to the scan state after the tick.
C9_ModeFollowsState ==
    (variant = "flask" /\ NoFaceTick) => current_antenna_mode = ModeOf(scanning_state)

\* C2: in the robot loop, if no face is ever detected and conversation_active
\* stays false, the scan state visits scanning, giving_up, sad, looking_down
\* and waiting again and again.
C2_ScanCycle ==
    [](~face_detected /\ ~conversation_active)
        => /\ []<>(scanning_state = "scanning")
           /\ []<>(scanning_state = "giving_up")
           /\ []<>(scanning_state = "sad")
           /\ []<>(scanning_state = "looking_down")
           /\ []<>(scanning_state = "waiting")

\* interaction_loop has set conversation_active and written "talking"
InConversation == conversation_active /\ il_pc \in {"top", "clear_conv"}

\* C10: once interaction_loop has set conversation_active and written the
\* antenna mode talking, the mode stays talking while conversation_active
\* remains true.
C10_TalkingStays ==
    [][(InConversation /\ current_antenna_mode = "talking" /\ InConversation')
       => current_antenna_mode' = "talking"]_vars

\* the planner's last call was not its first
SecondCall == planner_call.calls = 2

\* C11 as claimed: the second of any two calls less than movement_interval
\* apart returns no movement.
C11_AnyTwoCalls ==
    (SecondCall /\ planner_call.gap < roi_controller.movement_interval)
        => planner_call.movement = <<>>

\* C11 as the code has it: a call made less than movement_interval after
\* the last call that returned a movement returns no movement, whatever the
\* face position; calls that returned nothing do not start the interval.
C11_RateLimit ==
    (planner_call.calls > 0
        /\ planner_call.since_move < roi_controller.movement_interval)
        => planner_call.movement = <<>>

\* a face outside the dead zone, rejected just after an accepted movement
C11_Witness ==
    /\ SecondCall
    /\ planner_call.moved_before
    /\ planner_call.gap < roi_controller.movement_interval
    /\ ~planner_call.in_roi
    /\ planner_call.movement = <<>>

\* the point of the last call lies within the bounds, boundaries included
WithinBounds ==
    LET b == get_roi_bounds(roi_controller)
    IN  /\ b.x1 <= planner_call.face_x /\ planner_call.face_x <= b.x2
        /\ b.y1 <= planner_call.face_y /\ planner_call.face_y <= b.y2

\* C12: is_in_roi is true of every point within the bounds get_roi_bounds
\* returns, the points on the boundary included, and calculate_movement
\* returns no movement for such a point.
C12_DeadZoneInclusive ==
    (planner_call.calls > 0 /\ WithinBounds)
        => (planner_call.in_roi /\ planner_call.movement = <<>>)

\* a call with the face on the corner (x2, y2), not held back by the rate
\* limit
C12_Witness ==
    /\ planner_call.calls > 0
    /\ planner_call.face_x = get_roi_bounds(roi_controller).x2
    /\ planner_call.face_y = get_roi_bounds(roi_controller).y2
    /\ planner_call.since_move >= roi_controller.movement_interval
    /\ planner_call.in_roi
    /\ planner_call.movement = <<>>

\* (1 - alpha)^n * d, one exact factor at a time (1 - alpha = smoothing_factor)
RECURSIVE Shrink(_, _, _)
Shrink(self, d, n) ==
    IF n = 0 THEN d ELSE Shrink(self, (self.smoothing_factor * d) \div 10, n - 1)

Sign(x) == IF x < 0 THEN 0 - 1 ELSE IF x > 0 THEN 1 ELSE 0

\* the smoothed error after n feedings of raw, having started from start
Converges(self, smoothed, raw, start, n) ==
    /\ Abs(smoothed - raw) = Shrink(self, Abs(start - raw), n)
    /\ Abs(smoothed - raw) <= Abs(start - raw)
    /\ Sign(smoothed - raw) \in {0, Sign(start - raw)}

C13_TargetFromActual ==
    (/\ variant \in {"flask", "rft"}
     /\ session.tick = "face"
     /\ session.movement # <<>>)
    => /\ target_pan = Plus(session.actual[1], session.movement[1])
       /\ target_roll = Plus(session.actual[2], session.movement[2])
       /\ target_pitch = 0

\* an accepted movement in a tick where the neck was read away from the
\* previous target
C13_Witness ==
    /\ variant = "rft"
    /\ session.tick = "face"
    /\ session.movement # <<>>
    /\ ~IsNaN(session.actual[1])
    /\ ~IsNaN(session.target_before.pan)
    /\ session.actual[1] # session.target_before.pan
    /\ target_pan # session.target_before.pan + session.movement[1]

\* C14: after every tick of the two robot-facing loops that reaches
\* actuation, each of pan, roll and pitch is the value before the tick moved
\* toward its target by INTERPOLATION_RATE, and that value is the goal
\* written to the joint
C14_AllAxesInterpolated ==
    (/\ variant \in {"rft", "robot"}
     /\ session.tick \in {"face", "no_face"})
    => /\ current_pos = FlaskInterpolate(session.current_before,
                                         Pose(target_pan, target_roll, target_pitch),
                                         INTERPOLATION_RATE(variant))
       /\ goal_position = current_pos

\* the distance between two floats
Dist(a, b) == Abs(a - b)

\* x lies between a and b, ends included
Between(x, a, b) == (a <= x /\ x <= b) \/ (b <= x /\ x <= a)

\* C15: for every rate in (0, 1], one interpolation step strictly reduces
\* the distance to the target whenever the position is not the target, and
\* the new position lies between the previous one and the target
C15_StrictlyCloser ==
    interp.steps > 0
    => /\ interp.before # interp.target
          => Dist(interp.actuated, interp.target) < Dist(interp.before, interp.target)
       /\ Between(interp.actuated, interp.before, interp.target)

\* C15: for every rate in (0, 1], one interpolation step never increases the
\* distance to the target, leaves a position that is the target where it is,
\* and for a rate of at most one half the new position lies between the
\* previous one and the target
C15_NeverFarther ==
    interp.steps > 0
    => /\ Dist(interp.actuated, interp.target) <= Dist(interp.before, interp.target)
       /\ interp.before = interp.target => interp.actuated = interp.target
       /\ 2 * interp.rate <= One
          => Between(interp.actuated, interp.before, interp.target)

\* a step away from the target that moved the position closer to it
C15_Witness ==
    /\ interp.steps > 0
    /\ interp.before # interp.target
    /\ 2 * interp.rate <= One
    /\ interp.actuated # interp.before
    /\ interp.actuated # interp.target

\* a step that rounded to no movement one spacing from the target
C15_Stalled ==
    /\ interp.steps > 0
    /\ interp.before # interp.target
    /\ interp.actuated = interp.before

\* a step that passed the target
C15_Passed ==
    /\ interp.steps > 0
    /\ ~Between(interp.actuated, interp.before, interp.target)

\* some axis of a pose is NaN
HasNaN(p) == IsNaN(p.pan) \/ IsNaN(p.roll) \/ IsNaN(p.pitch)

\* C17: whatever the joints read, a NaN reading is replaced by 0.0: once the
\* loop has started, no target and no actuated position is NaN, and no goal
\* position written by a tick is NaN
C17_NaNReplaced ==
    session.pc # "new"
    => /\ ~HasNaN(Pose(target_pan, target_roll, target_pitch))
       /\ ~HasNaN(current_pos)
       /\ session.steps > 0 => ~HasNaN(goal_position)

\* C18: in FaceTrackingSystem._main_loop an exception raised inside one
\* iteration does not end the loop: after it the loop is still running
C18_LoopSurvives ==
    (variant = "flask" /\ session.raised) => session.pc = "running"

\* C19: once running has been cleared on the robot's TrackingController,
\* its tracking threads terminate
C19_ThreadTerminates ==
    []((variant = "robot" /\ ~running /\ threads # <<>>)
       => <>(\A t \in DOMAIN threads : threads[t].pc = "done"))

\* C20: every shutdown routine that has come to its end has issued exactly
\* one return-to-neutral command, and issued it with the stop flags of the
\* tracking loop and of the antenna loop set
C20_OneNeutralCommand ==
    shutdown.pc = "ended" => (shutdown.neutral = 1 /\ shutdown.flags_clear)

\* a thread that is in a tick, or at the top of the loop with the flag set
Ticking(t) ==
    threads[t].pc = "act" \/ (threads[t].pc = "top" /\ running)

\* C21: on the robot's TrackingController, whatever start(), pause() and
\* stop() calls were made, at most one thread executes tracking ticks
C21_SingleTracker ==
    \A t1, t2 \in DOMAIN threads : (Ticking(t1) /\ Ticking(t2)) => t1 = t2

\* C22: for the robot's AntennaController, from its construction on and
\* whatever RobotController.start() and stop() calls were made, at most one
\* antenna loop thread is alive
C22_SingleAntennaLoop ==
    variant = "robot" => antenna_threads <= 1

\* C23: in every published snapshot face_position is null exactly when
\* face_detected is false, and is a pair of numbers exactly when
\* face_detected is true
C23_FacePositionMatches ==
    metadata.published
    => /\ metadata.face_position.is_null <=> ~metadata.face_detected
       /\ metadata.face_detected
          => /\ metadata.face_position.x # None
             /\ metadata.face_position.y # None

\* C24: whatever the interleaving of publish_frame and get_latest_frame,
\* what get_latest_frame returned is (None, None) or a frame that one
\* publish_frame call wrote completely
C24_NoPartialFrame ==
    \A c \in Readers : provider.result[c].state \in {"absent", "complete"}

\* the reader of another process returned the second frame while a
\* publisher was in the middle of a write
C24_Witness ==
    /\ provider.result["external"] = Complete(1)
    /\ \E c \in Publishers : provider.pc[c] = "writing"
    /\ provider.files.temp.state = "partial"

\* the planner's last call was its first, made with no smoothed error yet
FirstCall == planner_call.calls = 1

\* C25: calculate_movement returns a movement exactly when the interval since
\* the last returned movement has passed, the point is outside the dead zone
\* and the adjustment computed from the newly smoothed error is not below
\* min_movement_threshold, and the value returned is the pair
\* (-smoothed_x * gain, -smoothed_y * gain).  On a 640 x 480 frame with
\* ratios 0.4 x 0.4 a first call at (320, 240) returns nothing and a first
\* call at (600, 240) returns a nonzero pan adjustment and a zero roll
\* adjustment.
C25_MovementReturned ==
    LET self == roi_controller
        c    == planner_call
        due  == /\ c.since_move >= self.movement_interval
                /\ ~c.in_roi
                /\ ~BelowThreshold(self, self.smoothed_error_x, self.smoothed_error_y)
    IN  c.calls > 0
        => /\ c.movement # <<>> <=> due
           /\ c.movement # <<>>
              => c.movement = <<(0 - self.smoothed_error_x) * self.movement_gain,
                                (0 - self.smoothed_error_y) * self.movement_gain>>
           /\ (FirstCall /\ variant = "rft" /\ c.face_x = 320 /\ c.face_y = 240)
              => c.movement = <<>>
           /\ (FirstCall /\ variant = "rft" /\ c.face_x = 600 /\ c.face_y = 240)
              => /\ c.movement # <<>>
                 /\ c.movement[1] # 0
                 /\ c.movement[2] = 0

\* the first call, for a face at (600, 240), returned a movement
C25_Witness ==
    /\ FirstCall
    /\ variant = "rft"
    /\ planner_call.face_x = 600
    /\ planner_call.face_y = 240
    /\ planner_call.movement # <<>>

\* a call outside the dead zone, the interval passed, rejected as too small
C25_TooSmall ==
    /\ planner_call.calls > 0
    /\ planner_call.since_move >= roi_controller.movement_interval
    /\ ~planner_call.in_roi
    /\ planner_call.movement = <<>>

\* the step is a tick that counted a scan attempt
ScanAttempt == scan_count' = scan_count + 1

\* the step is a tick on which an attempt is due: the state was scanning, a
\* frame was obtained, no face was found and the frame counter came to a
\* multiple of 90
AttemptDue ==
    /\ frame_count' # frame_count
    /\ scanning_state = "scanning"
    /\ image' = "frame"
    /\ ~face_detected'
    /\ frame_count' % SCAN_EVERY = 0

\* C26: the scan-attempt count is incremented on exactly the ticks that start
\* in the scanning state, obtain a frame, find no face and bring the frame
\* counter to a multiple of 90; an attempt that stays in scanning leaves a
\* waypoint with pan magnitude in [30, 75], roll in [-5, 5] and pitch 0
C26_ScanAttempts ==
    [][/\ ScanAttempt <=> AttemptDue
       /\ (ScanAttempt /\ scanning_state' = "scanning")
          => /\ Abs(target_pan') \in PAN_MIN .. PAN_MAX
             /\ target_roll' \in (0 - ROLL_MAX) .. ROLL_MAX
             /\ target_pitch' = 0]_vars

\* after a scan attempt that produced the far waypoint
C26_Witness ==
    /\ variant = "flask"
    /\ prev_state = "scanning"
    /\ scanning_state = "scanning"
    /\ frame_count = 0
    /\ image = "frame"
    /\ scan_count = 2
    /\ Abs(target_pan) = PAN_MAX

\* a tick in scanning on a multiple of 90 that found no frame
C26_MissedFrame ==
    /\ scanning_state = "scanning"
    /\ prev_state = "scanning"
    /\ frame_count = 0
    /\ image = "none"

\* the absolute pose (pan 0, roll -30, pitch 0), as a movement command of
\* process_frame or as a timed goto of the threaded copies
LookDownCommands == {Absolute(0, 0 - LOOK_DOWN_ROLL), Goto(0, 0 - LOOK_DOWN_ROLL)}

\* C27: a tick issues the looking-down pose command exactly when it takes the
\* state from sad to looking_down, and a tick that stays in sad, looking_down
\* or waiting issues no head-pose command at all
C27_LookDownOnce ==
    [][frame_count' # frame_count
       => /\ (movement_command' \in LookDownCommands)
              <=> (scanning_state = "sad" /\ scanning_state' = "looking_down")
          /\ (scanning_state \in {"sad", "looking_down", "waiting"}
              /\ scanning_state' = scanning_state)
             => movement_command' = NoCommand]_vars

\* the tick that left sad for looking_down, and its command
C27_Witness ==
    /\ prev_state = "sad"
    /\ scanning_state = "looking_down"
    /\ image = "frame"
    /\ movement_command \in LookDownCommands

\* a tick that stayed in looking_down
C27_Stayed ==
    /\ prev_state = "looking_down"
    /\ scanning_state = "looking_down"
    /\ image = "frame"
    /\ movement_command = NoCommand

\* the step is a tick on which the frame source returned no frame
TickWithoutFrame == frame_count' # frame_count /\ image' = "none"

\* the tick issued no command: no goal position was written and process_frame
\* returned no movement command (the threaded "robot" copy has none to return)
NoCommandIssued ==
    /\ goal_position' = goal_position
    /\ variant # "robot" => movement_command' = NoCommand

\* C28: a tick that obtains no frame changes the frame counter only: the scan
\* state, the no-face and scan-attempt counters, the direction toggle, the
\* head targets, the actuated positions and the antenna mode keep their
\* values, no command is issued, and the loop is still running
C28_OnlyFrameCounter ==
    [][TickWithoutFrame
       => /\ UNCHANGED <<scanning_state, self_scanning_state, no_face_count,
                         scan_count, PANLEFT, target_pan, target_roll,
                         target_pitch, current_pos, current_antenna_mode>>
          /\ NoCommandIssued
          /\ UNCHANGED <<running, threads>>]_vars

\* a frame was missing while the head was on its way to its target
C28_Witness ==
    /\ session.tick = "no_frame"
    /\ image = "none"
    /\ session.steps >= 1
    /\ current_pos # Pose(0, 0, 0)
    /\ current_pos # ScaledPose(Pose(target_pan, target_roll, target_pitch))

\* a frame was missing on the tick on which a scan attempt was due
C28_ScanDue ==
    /\ image = "none"
    /\ prev_state = "scanning"
    /\ scanning_state = "scanning"
    /\ frame_count = 0
    /\ scan_count >= 1
    /\ target_pan # 0

\* the axes whose write comes after the one that raised
Remaining(tick) ==
    CASE tick = "pan_raised"  -> {"roll", "pitch"}
      [] tick = "roll_raised" -> {"pitch"}
      [] OTHER                -> {}

\* C29: after a tick on which the goal-position write of one axis raised, the
\* remaining axes have been written with the tick's interpolated position and
\* the loop is still running
C29_RemainingWritten ==
    session.tick \in {"pan_raised", "roll_raised", "pitch_raised"}
    => /\ \A a \in Remaining(session.tick) : goal_position[a] = current_pos[a]
       /\ session.pc = "running"

\* in the threaded copies the loop goes on, but the remaining axes keep their
\* old goal
C29_RemainingSkipped ==
    /\ variant = "robot"
    /\ session.tick = "pan_raised"
    /\ session.pc = "running"
    /\ goal_position.roll # current_pos.roll

\* a routine that joins the tracking thread (stop_tracking, cleanup) has got
\* past its join and the flag it cleared is still clear: either the thread
\* had ended or the 2 s had expired
PastJoin ==
    /\ shutdown.routine \in {"stop_tracking", "cleanup"}
    /\ shutdown.pc \in {"neutral", "ended"}
    /\ ~running

\* the step issues the return-to-neutral goto
NeutralIssued == shutdown'.neutral > shutdown.neutral

\* the step is a tracking thread reaching the end of a loop body, where the
\* goal positions are written
BodyFinishes ==
    \/ variant = "rft" /\ shutdown.in_body /\ ~shutdown'.in_body
    \/ \E t \in DOMAIN threads : threads[t].pc = "act" /\ threads'[t].pc = "top"

\* C30: once the join of a shutdown routine is over, the routine issues the
\* return-to-neutral move only if every tracking thread has ended, and no
\* tracking thread writes goal positions any more
C30_TimeoutStopsMotion ==
    [][PastJoin
       => /\ NeutralIssued => \A t \in DOMAIN threads : threads[t].pc = "done"
          /\ ~BodyFinishes]_vars

\* stop_tracking has returned, its goto issued, and the thread it joined is
\* still inside a loop body
C30_StillInBody ==
    /\ variant = "rft"
    /\ shutdown.routine = "stop_tracking"
    /\ shutdown.pc = "ended"
    /\ shutdown.neutral = 1
    /\ shutdown.in_body
    /\ ~running

-----------------------------------------------------------------------------
(* The antenna loop on its own.  Time is counted in tenths of a second and  *)
(* passes only while the loop sleeps; a write to current_antenna_mode can   *)
(* fall between any two statements of the loop.  The loop's flag stays set. *)

\* everything but the parts beside the tick, as constructed
InitRest ==
    /\ variant = "flask"
    /\ InitFields
    /\ il_pc = "off"
    /\ InitPlanner
    /\ present_position = Pose(0, 0, 0)
    /\ InitActuation
    /\ InitInterp
    /\ InitNoShutdown
    /\ InitMetadata
    /\ InitProvider

\* the longest time since a write that is counted
MaxAge == 9

\* a pair of goal-position writes, the sleep after it, and whether the
\* statement before it tests the mode again and breaks
Move(left, right, sleep, check) ==
    [set |-> TRUE, left |-> left, right |-> right, sleep |-> sleep,
     check |-> check]

\* a sleep without a command
Rest(sleep) ==
    [set |-> FALSE, left |-> 0, right |-> 0, sleep |-> sleep, check |-> FALSE]

\* random.uniform(-15, 15), and (-25, 25) of "talking": both ends and 0
Wiggles(mode) == IF mode = "talking" THEN {0 - 25, 0, 25} ELSE {0 - 15, 0, 15}

\* a wiggle that sleeps up to 1.2 s
WiggleSleeps_Long(mode) == IF mode = "talking" THEN {2, 4} ELSE {3, 12}

\* random.uniform(0.3, 0.8), and (0.2, 0.4) of "talking": both ends
WiggleSleeps(mode) == IF mode = "talking" THEN {2, 4} ELSE {3, 8}

\* _antenna_controller: the branch of one mode
ControllerBeat(mode, wiggle, sleep) ==
    CASE mode = "sad" ->
             <<Move(0 - 125, 125, 3, FALSE), Move(0 - 120, 120, 0, FALSE)>>
      [] mode = "tracking" ->
             <<Move(0 - 15 + wiggle, 15 - wiggle, sleep, FALSE)>>
      [] mode = "idle" ->
             <<Move(0, 0, 5, FALSE)>>
      [] mode = "scanning" ->
             <<Move(0 - 125, 125, 3, TRUE), Move(0 - 100, 100, 3, FALSE),
               Move(0 - 125, 125, 3, TRUE), Move(0 - 100, 100, 3, FALSE)>>
      [] mode = "giving_up" ->
             [k \in 1..11 |-> Move(2 * (k - 1), 0 - 2 * (k - 1), 1, TRUE)]
      [] OTHER -> <<>>

\* AntennaController._loop: the case of one mode
RobotBeat(mode, wiggle, sleep) ==
    CASE mode = "sad" ->
             <<Move(0 - 125, 125, 3, FALSE), Move(0 - 120, 120, 3, FALSE)>>
      [] mode \in {"tracking", "talking"} ->
             <<Move(0 - 15 + wiggle, 15 - wiggle, sleep, FALSE)>>
      [] mode = "scanning" ->
             <<Move(0 - 125, 125, 3, FALSE), Move(0 - 100, 100, 3, FALSE)>>
      [] mode = "idle" ->
             <<Move(0, 0, 0, FALSE)>>
      [] OTHER -> <<Rest(5)>>

\* the beats an iteration that reads the mode can run
Beats(impl, mode) ==
    LET wiggles == IF mode \in {"tracking", "talking"} THEN Wiggles(mode) ELSE {0}
        sleeps  == IF mode \in {"tracking", "talking"} THEN WiggleSleeps(mode) ELSE {0}
    IN  { IF impl = "robot" THEN RobotBeat(mode, w, d) ELSE ControllerBeat(mode, w, d) :
          w \in wiggles, d \in sleeps }

\* the modes written for the loop.  set_antenna_mode receives what
\* process_frame returns; _tracking_loop writes the same five.  In "robot"
\* interaction_loop writes "talking" and the tracking loop, whose state
\* never leaves idle, writes "idle", "tracking" and "scanning"
WrittenModes(impl) ==
    IF impl = "robot" THEN {"idle", "tracking", "scanning", "talking"}
    ELSE {"idle", "tracking", "scanning", "giving_up", "sad"}

\* the number of commands in a beat
Commands(beat) == Cardinality({i \in DOMAIN beat : beat[i].set})

InitAntenna ==
    /\ InitRest
    /\ \E impl \in {"controller", "robot"} : animator = NewAnimator(impl)
    /\ proxy = NewProxy
    /\ endpoint = NewEndpoint

\* the tracking loop and everything else stand still
AnimatorOnly ==
    /\ TickIdle
    /\ UNCHANGED <<roi_controller, planner_call, present_position, current_pos,
                   goal_position, session, interp, shutdown, antenna_threads,
                   metadata, provider, proxy, endpoint>>

\* self.current_antenna_mode = mode, by another thread
ModeWritten(mode) ==
    /\ mode \in WrittenModes(animator.impl)
    /\ mode # animator.mode
    /\ animator' = [animator EXCEPT
                       !.mode = mode,
                       !.changed = @ \/ animator.pc = "beat",
                       !.age = 0,
                       !.acted = animator.pc = "beat" /\ animator.beat = mode]
    /\ AnimatorOnly

\* the top of the loop: the mode is read and its branch entered
BeatBegins ==
    /\ animator.pc = "top"
    /\ \E beat \in Beats(animator.impl, animator.mode) :
           animator' = [animator EXCEPT
                           !.pc = "beat", !.beat = animator.mode, !.moves = beat,
                           !.commands = <<>>, !.changed = FALSE,
                           !.broken = FALSE, !.raised = FALSE, !.acted = TRUE]
    /\ AnimatorOnly

\* if ... self.current_antenna_mode != "scanning": break
BeatBreaks ==
    /\ animator.pc = "beat"
    /\ animator.wait = 0
    /\ animator.moves # <<>>
    /\ Head(animator.moves).check
    /\ animator.mode # animator.beat
    /\ animator' = [animator EXCEPT !.pc = "top", !.moves = <<>>, !.broken = TRUE]
    /\ AnimatorOnly

\* the next statements of the branch: the antenna goal positions are
\* written and the loop sleeps
BeatStep ==
    /\ animator.pc = "beat"
    /\ animator.wait = 0
    /\ animator.moves # <<>>
    /\ LET move == Head(animator.moves)
       IN  /\ ~(move.check /\ animator.mode # animator.beat)
           /\ animator' = [animator EXCEPT
                              !.moves = Tail(@),
                              !.commands = IF move.set
                                           THEN Append(@, <<move.left, move.right>>)
                                           ELSE @,
                              !.wait = move.sleep]
    /\ AnimatorOnly

\* a goal-position write raises: except Exception, time.sleep(0.5)
SetRaises ==
    /\ animator.pc = "beat"
    /\ animator.wait = 0
    /\ animator.moves # <<>>
    /\ LET move == Head(animator.moves)
       IN  /\ move.set
           /\ ~(move.check /\ animator.mode # animator.beat)
    /\ animator' = [animator EXCEPT !.moves = <<>>, !.raised = TRUE, !.wait = 5]
    /\ AnimatorOnly

\* the branch is done: back to the while test
BeatEnds ==
    /\ animator.pc = "beat"
    /\ animator.wait = 0
    /\ animator.moves = <<>>
    /\ animator' = [animator EXCEPT !.pc = "top"]
    /\ AnimatorOnly

\* a tenth of a second of a sleep goes by
Sleeps ==
    /\ animator.wait > 0
    /\ animator' = [animator EXCEPT !.wait = @ - 1,
                                    !.age = Min(@ + 1, MaxAge)]
    /\ AnimatorOnly

NextAntenna ==
    \/ \E mode \in AntennaModes : ModeWritten(mode)
    \/ BeatBegins
    \/ BeatBreaks
    \/ BeatStep
    \/ SetRaises
    \/ BeatEnds
    \/ Sleeps

SpecAntenna == InitAntenna /\ [][NextAntenna]_vars

\* the beat an iteration ran to its end, neither broken off nor stopped by
\* an exception
BeatDone == animator.pc = "top" /\ ~animator.raised

\* C31: a beat that has started issues all of its commands even when the
\* mode is written during the beat: no beat is broken off
C31_BeatCompletes ==
    BeatDone => ~animator.broken

\* C32: as long as the loop has not started to act on the last mode written,
\* at most 0.8 s have passed since the write
C32_ReactsInTime ==
    ~animator.acted => animator.age <= 8

\* the loop at the end of the longest wait: a wiggle that sleeps 0.8 s, the
\* mode written right after the wiggle began
C32_Witness ==
    /\ ~animator.acted
    /\ animator.age = 8
    /\ animator.wait = 0
    /\ animator.beat = "tracking"

\* the sweep of giving_up: 0 to 20 in steps of 2, mirrored
Sweep == [k \in 1..11 |-> <<2 * (k - 1), 0 - 2 * (k - 1)>>]

\* C33: an iteration that read giving_up commands the whole sweep, and an
\* iteration that read any mode written for the loop commands the antennas
C33_EveryModeAnimated ==
    BeatDone
    => /\ animator.beat = "giving_up" => animator.commands = Sweep
       /\ (animator.beat \in WrittenModes(animator.impl) /\ ~animator.changed)
          => animator.commands # <<>>

\* a sweep broken off after its first steps
C33_SweepCut ==
    /\ BeatDone
    /\ animator.beat = "giving_up"
    /\ Len(animator.commands) = 2

(***************************************************************************)
(* ProxyClient: the joint limits and the rate limit of the send methods.   *)
(* Angles are whole degrees, the clock counts hundredths of a second.      *)
(* send_position builds its dictionary from pan, pitch and roll and then   *)
(* does what send_positions_batch does; one pair of steps models both.     *)
(* A call is two steps: the read of the clock with the rate test, and the  *)
(* clamp, filter and emit.  The clock stands still while a call is under   *)
(* way, so that a call on its own takes no time.                           *)
(***************************************************************************)
MaxClock == 12

MIN_SEND_INTERVAL == 5

JOINT_LIMITS ==
    [r_shoulder_pitch |-> <<0 - 150, 90>>, r_shoulder_roll |-> <<0 - 180, 10>>,
     r_arm_yaw |-> <<0 - 90, 90>>, r_elbow_pitch |-> <<0 - 125, 0>>,
     r_forearm_yaw |-> <<0 - 100, 100>>, r_wrist_pitch |-> <<0 - 45, 45>>,
     r_wrist_roll |-> <<0 - 55, 35>>, r_gripper |-> <<0 - 50, 25>>,
     l_shoulder_pitch |-> <<0 - 150, 90>>, l_shoulder_roll |-> <<0 - 10, 180>>,
     l_arm_yaw |-> <<0 - 90, 90>>, l_elbow_pitch |-> <<0 - 125, 0>>,
     l_forearm_yaw |-> <<0 - 100, 100>>, l_wrist_pitch |-> <<0 - 45, 45>>,
     l_wrist_roll |-> <<0 - 35, 55>>, l_gripper |-> <<0 - 25, 50>>,
     l_antenna |-> <<0 - 30, 30>>, r_antenna |-> <<0 - 30, 30>>,
     neck_yaw |-> <<0 - 45, 45>>, neck_pitch |-> <<0 - 25, 25>>,
     neck_roll |-> <<0 - 20, 20>>]

\* Python's x < y on floats: false when either side is NaN
FloatLess(x, y) == ~IsNaN(x) /\ ~IsNaN(y) /\ x < y

\* Python's min(a, b) and max(a, b): the first argument unless the second
\* is strictly beyond it
PyMin(a, b) == IF FloatLess(b, a) THEN b ELSE a

PyMax(a, b) == IF FloatLess(a, b) THEN b ELSE a

clamp_joint_angle(joint_name, angle) ==
    IF joint_name \notin DOMAIN JOINT_LIMITS
    THEN angle
    ELSE LET min_angle == JOINT_LIMITS[joint_name][1]
             max_angle == JOINT_LIMITS[joint_name][2]
         IN  PyMax(min_angle, PyMin(max_angle, angle))

\* _should_send with position_threshold 0.5: a comparison with NaN is false
ShouldSend(joint_name, new_value) ==
    LET last == proxy.last_sent_positions[joint_name]
    IN  \/ last = None
        \/ /\ ~IsNaN(new_value)
           /\ ~IsNaN(last)
           /\ 2 * Abs(new_value - last) >= 1

\* the angles a caller passes: below every limit, inside them, and NaN
Angles == {0 - 125, 31, NaN}

Dicts == UNION {[J -> Angles] : J \in (SUBSET Joints) \ {{}}}

\* queue_position_update stores clamped neck joints; _process_queue sends
\* the latest of them, never with force
Queued == {[j \in DOMAIN d |-> clamp_joint_angle(j, d[j])] :
              d \in {e \in Dicts : DOMAIN e = {"neck_yaw"}}}

CallsOf(c) ==
    IF c = "queue_thread"
    THEN Queued \X {FALSE}
    ELSE Dicts \X BOOLEAN

InitProxy ==
    /\ InitRest
    /\ InitBeside

ProxyOnly ==
    /\ TickIdle
    /\ UNCHANGED <<roi_controller, planner_call, present_position, current_pos,
                   goal_position, session, interp, shutdown, antenna_threads,
                   metadata, provider, animator, endpoint>>

\* time.time() moves on between calls
ClockAdvances ==
    /\ \A c \in Callers : proxy.call[c].pc = "idle"
    /\ proxy.clock < MaxClock
    /\ \E dt \in {1, MIN_SEND_INTERVAL} :
          proxy' = [proxy EXCEPT !.clock = Min(MaxClock, proxy.clock + dt),
                                  !.emission = NoEmission]
    /\ ProxyOnly

\* the rate limiting test of both send methods
SendLimited(now, force) ==
    ~force /\ now - proxy.last_send_time < MIN_SEND_INTERVAL

\* entry of send_positions_batch / send_position up to the rate limit
SendBegins(c) ==
    /\ proxy.call[c].pc = "idle"
    /\ \E call \in CallsOf(c) :
          LET now == proxy.clock
              force == call[2]
          IN  IF SendLimited(now, force)
              THEN proxy' = [proxy EXCEPT
                                !.call[c] = [NoSend EXCEPT
                                                !.returned = "limited"],
                                !.emission = NoEmission]
              ELSE proxy' = [proxy EXCEPT
                                !.call[c] = [pc |-> "checked",
                                             current_time |-> now,
                                             force |-> force,
                                             positions |-> call[1],
                                             returned |-> "none"],
                                !.emission = NoEmission,
                                !.overlap =
                                    @ \/ \E o \in Callers \ {c} :
                                            proxy.call[o].pc = "checked"]
    /\ ProxyOnly

\* the joints of the call that pass the threshold, clamped
ToSend(call) ==
    LET kept == {j \in DOMAIN call.positions :
                    call.force
                    \/ ShouldSend(j, clamp_joint_angle(j, call.positions[j]))}
    IN  [j \in kept |-> clamp_joint_angle(j, call.positions[j])]

Remembered(to_send) ==
    [j \in Joints |-> IF j \in DOMAIN to_send
                      THEN to_send[j]
                      ELSE proxy.last_sent_positions[j]]

\* the rest of the method: clamp, filter, sio.emit, last_send_time
SendEmits(c) ==
    /\ proxy.call[c].pc = "checked"
    /\ LET call == proxy.call[c]
           to_send == ToSend(call)
       IN  IF to_send = <<>>
           THEN proxy' = [proxy EXCEPT
                             !.call[c] = [NoSend EXCEPT
                                             !.returned = "nothing"],
                             !.emission = NoEmission]
           ELSE proxy' =
                  [proxy EXCEPT
                     !.call[c] = [NoSend EXCEPT !.returned = "sent"],
                     !.last_sent_positions = Remembered(to_send),
                     !.last_send_time = call.current_time,
                     !.plain_time = IF call.force THEN @
                                    ELSE call.current_time,
                     !.emission = [emitted |-> TRUE, to_send |-> to_send,
                                   positions |-> call.positions,
                                   force |-> call.force,
                                   time |-> call.current_time,
                                   previous |-> proxy.plain_time]]
    /\ ProxyOnly

\* sio.emit raises: nothing is emitted and last_send_time keeps its value,
\* the positions are already remembered as sent
EmitRaises(c) ==
    /\ proxy.call[c].pc = "checked"
    /\ LET to_send == ToSend(proxy.call[c])
       IN  /\ to_send # <<>>
           /\ proxy' = [proxy EXCEPT
                           !.call[c] = [NoSend EXCEPT !.returned = "error"],
                           !.emission = NoEmission,
                           !.last_sent_positions = Remembered(to_send)]
    /\ ProxyOnly

NextProxy ==
    \/ ClockAdvances
    \/ \E c \in Callers : SendBegins(c)
    \/ \E c \in Callers : SendEmits(c)
    \/ \E c \in Callers : EmitRaises(c)

SpecProxy == InitProxy /\ [][NextProxy]_vars

\* every emitted value lies within the limits of its joint, and a joint
\* without limits carries the angle it was given
WithinLimits ==
    \A j \in DOMAIN proxy.emission.to_send :
       LET value == proxy.emission.to_send[j]
       IN  IF j \in DOMAIN JOINT_LIMITS
           THEN /\ ~IsNaN(value)
                /\ JOINT_LIMITS[j][1] <= value
                /\ value <= JOINT_LIMITS[j][2]
           ELSE value = proxy.emission.positions[j]

\* an emission without force comes at least min_send_interval after the
\* emission without force before it
Spaced ==
    (~proxy.emission.force /\ proxy.emission.previous >= 0)
       => proxy.emission.time - proxy.emission.previous >= MIN_SEND_INTERVAL

\* C34: every joint value emitted by send_positions_batch or send_position
\* lies within JOINT_LIMITS for its joint, values of joints without limits
\* pass through unchanged, and any two emissions made without force are at
\* least min_send_interval (0.05 s) apart.
C34_ClampedAndSpaced == proxy.emission.emitted => (WithinLimits /\ Spaced)

\* the limits alone
C34_Clamped == proxy.emission.emitted => WithinLimits

\* the spacing while no two calls have been under way at once
C34_SpacedInTurn ==
    (proxy.emission.emitted /\ ~proxy.overlap) => Spaced

\* two emissions without force less than min_send_interval apart
C34_TooSoon == proxy.emission.emitted /\ ~Spaced

\* a value beyond the limits was passed and emitted, after an earlier
\* emission without force
C34_Witness ==
    /\ proxy.emission.emitted
    /\ ~proxy.emission.force
    /\ proxy.emission.previous >= 0
    /\ \E j \in DOMAIN proxy.emission.to_send :
          proxy.emission.to_send[j] # proxy.emission.positions[j]

----------------------------------------------------------------------------
(* The looking-down pose and the interpolation target *)

\* the copies that command the robot's joints themselves
RobotFacing == {"rft", "robot"}

\* the loop has commanded the looking-down pose and is still in the phases
\* that follow it
LookedDown ==
    variant \in RobotFacing /\ scanning_state \in {"looking_down", "waiting"}

\* the target the per-tick interpolation moves the goal positions toward
TargetIsLookDownPose == target_pan = 0 /\ target_roll = 0 - LOOK_DOWN_ROLL

\* C35: in the robot-facing loops, once the Sad -> LookingDown transition has
\* commanded the looking-down pose, the head target equals that pose (pan 0,
\* roll -30), so the goal positions interpolated during LookingDown and
\* Waiting move toward it and not back toward the last scan waypoint.
C35_TargetFollowsLookDown == LookedDown => TargetIsLookDownPose

\* the Flask copy, whose main loop applies the command to the target
C35_FlaskTarget ==
    (variant = "flask" /\ scanning_state \in {"looking_down", "waiting"})
       => TargetIsLookDownPose

\* the target is still the last scan waypoint on the tick of the transition
C35_StillAtWaypoint ==
    /\ variant = "rft"
    /\ prev_state = "sad"
    /\ scanning_state = "looking_down"
    /\ movement_command = Goto(0, 0 - LOOK_DOWN_ROLL)
    /\ target_pan = scan_history[2]
    /\ target_pan # 0

----------------------------------------------------------------------------
(* RobotController.stop() against a tick in progress *)

\* RobotController.stop() has issued its return-to-neutral goto and nothing
\* has started the loop again
Stopped ==
    /\ variant = "robot"
    /\ shutdown.routine = "stop"
    /\ shutdown.pc = "ended"
    /\ shutdown.neutral = 1
    /\ ~running

\* C36: after RobotController.stop() has issued its return-to-neutral
\* command the tracking loop writes no further head goal position, for every
\* interleaving of stop() with a tick in progress, so that the last head
\* command of a stopped session is the neutral pose.
C36_NeutralIsLast == [][Stopped => ~BodyFinishes]_vars

\* stop() has returned while a tick that began before pause() is still on
\* its way to the goal-position writes
C36_TickInProgress ==
    /\ Stopped
    /\ \E t \in DOMAIN threads : threads[t].pc = "act"

----------------------------------------------------------------------------
(* What a call of calculate_movement leaves in the planner *)

\* C37: a call rejected by the rate limit or by the dead zone leaves
\* smoothed_error_x, smoothed_error_y and last_movement_time unchanged; a
\* call rejected by the minimum-magnitude threshold updates the smoothed
\* error and leaves last_movement_time unchanged; an accepted call sets
\* last_movement_time to its own timestamp.
C37_RejectionEffects ==
    [][LET self  == roi_controller
           after == roi_controller'
           call  == planner_call'
           now   == planner_call.time + call.gap
           kept  == Window(now, self.last_movement_time).state_start_time
           same  == /\ after.smoothed_error_x = self.smoothed_error_x
                    /\ after.smoothed_error_y = self.smoothed_error_y
           fed   == /\ after.smoothed_error_x =
                          Smooth(self, ErrorOf(call.face_x, self.frame_width),
                                 self.smoothed_error_x)
                    /\ after.smoothed_error_y =
                          Smooth(self, ErrorOf(call.face_y, self.frame_height),
                                 self.smoothed_error_y)
       IN  CASE call.since_move < self.movement_interval \/ call.in_roi ->
                   same /\ after.last_movement_time = kept
             [] call.movement = <<>> ->
                   fed /\ after.last_movement_time = kept
             [] OTHER ->
                   fed /\ after.last_movement_time = call.time]_vars

\* a call rejected by the threshold, later than the last accepted one, that
\* left a smoothed error other than 0
C37_Witness ==
    /\ planner_call.calls > 1
    /\ planner_call.since_move >= roi_controller.movement_interval
    /\ ~planner_call.in_roi
    /\ planner_call.movement = <<>>
    /\ roi_controller.smoothed_error_x # 0
    /\ roi_controller.last_movement_time > 0
    /\ roi_controller.last_movement_time < planner_call.time

\* a call rejected by the rate limit after the smoothed error had left 0
C37_RateRejected ==
    /\ planner_call.calls > 1
    /\ planner_call.since_move < roi_controller.movement_interval
    /\ ~planner_call.in_roi
    /\ roi_controller.smoothed_error_x # 0

----------------------------------------------------------------------------
(* The length of a scanning run, in ticks.  The runs count the ticks since  *)
(* the state became scanning; the clock jumps past every threshold on each  *)
(* tick, there is one scan waypoint, and a face is one the planner returns  *)
(* no movement for.                                                         *)

InitCadence ==
    /\ variant \in {"flask", "rft"}
    /\ InitCounting(TRUE)
    /\ il_pc = "off"
    /\ InitAux

CadenceTick(face) ==
    /\ \/ FlaskTick(TimeCap, face, <<>>, <<0, 0>>, PAN_MIN, 0)
       \/ RftTick(TimeCap, face, <<>>, <<0, 0>>, PAN_MIN, 0)
    /\ UNCHANGED aux

NextCadence ==
    \/ \E face \in BOOLEAN : CadenceTick(face)
    \/ NoFrames({TimeCap})

SpecCadence == InitCadence /\ [][NextCadence]_vars

\* fewest and most ticks from the tick that made the state scanning to the
\* tick that makes it giving_up
FewestTicks == SCAN_EVERY * MAX_SCANS(variant) + 1

MostTicks == SCAN_EVERY * (MAX_SCANS(variant) + 1)

\* the last tick ended a scanning run, every tick of which had a frame, by
\* giving up
GaveUp ==
    /\ prev_state = "scanning"
    /\ scanning_state = "giving_up"
    /\ scan_run.frames

\* C38: after the state becomes Scanning, with no face and a frame on every
\* following tick, the state becomes GivingUp after at least
\* 90 * MAX_SCANS + 1 and at most 90 * (MAX_SCANS + 1) further ticks,
\* whatever the frame counter was when Scanning was entered.
C38_TicksToGivingUp ==
    /\ GaveUp => (FewestTicks <= scan_run.ticks /\ scan_run.ticks <= MostTicks)
    /\ (scanning_state = "scanning" /\ scan_run.frames)
          => scan_run.ticks < MostTicks

\* the Flask loop gave up after the fewest ticks
C38_Witness ==
    /\ variant = "flask"
    /\ GaveUp
    /\ scan_run.ticks = FewestTicks

\* the Flask loop gave up after the most ticks
C38_Longest ==
    /\ variant = "flask"
    /\ GaveUp
    /\ scan_run.ticks = MostTicks

\* a run in which a tick found no frame went on for longer
C38_MissedFrames ==
    /\ variant = "flask"
    /\ prev_state = "scanning"
    /\ scanning_state = "giving_up"
    /\ ~scan_run.frames
    /\ scan_run.ticks > MostTicks

----------------------------------------------------------------------------
(* The scan-attempt count and the scan state of the Flask loop *)

\* C39: at every tick boundary of process_frame the scan-attempt count is 0
\* when the state is Idle, between 0 and MAX_SCANS when it is Scanning, and
\* exactly MAX_SCANS + 1 when it is GivingUp, Sad, LookingDown or Waiting; it
\* never exceeds MAX_SCANS + 1.
C39_CountTiedToState ==
    variant = "flask"
       => CASE scanning_state = "idle" -> scan_count = 0
            [] scanning_state = "scanning" ->
                  0 <= scan_count /\ scan_count <= MAX_SCANS(variant)
            [] OTHER -> scan_count = MAX_SCANS(variant) + 1

\* the Flask loop scans again after waiting, its count back at 0
C39_Witness ==
    /\ variant = "flask"
    /\ prev_state = "waiting"
    /\ scanning_state = "scanning"
    /\ scan_count = 0

\* the count at its highest in a scanning run and after it
C39_Highest ==
    /\ variant = "flask"
    /\ prev_state = "scanning"
    /\ scanning_state = "giving_up"
    /\ scan_count = MAX_SCANS(variant) + 1

----------------------------------------------------------------------------
(* tracking_control, the endpoint that starts, stops and restarts the       *)
(* tracking subprocess.  The development server handles each request on a   *)
(* thread of its own; a request is split at its reads and writes of the     *)
(* global tracking_process and at the calls that launch or end a process.   *)

\* most subprocesses ever launched
MaxSpawned == 3

Actions == {"start", "stop", "restart"}

EndpointOnly ==
    /\ TickIdle
    /\ UNCHANGED <<roi_controller, planner_call, present_position, current_pos,
                   goal_position, session, interp, shutdown, antenna_threads,
                   metadata, provider, animator, proxy>>

\* tracking_process is not None and tracking_process.poll() is None
IsRunning == endpoint.tracking_process \in endpoint.alive

\* a request reaches tracking_control
RequestArrives(r, action) ==
    /\ endpoint.pc[r] = "idle"
    /\ endpoint' = [endpoint EXCEPT
                       !.pc[r] = "check", !.action[r] = action,
                       !.success[r] = FALSE,
                       !.overlap = @ \/ \E o \in Requests \ {r} :
                                            endpoint.pc[o] # "idle"]
    /\ EndpointOnly

\* the test each action begins with: start returns success false when a
\* process is running, stop when none is, restart stops a running one first
Checks(r) ==
    /\ endpoint.pc[r] = "check"
    /\ LET action == endpoint.action[r]
           returns == (action = "start" /\ IsRunning)
                      \/ (action = "stop" /\ ~IsRunning)
           ends == action \in {"stop", "restart"} /\ IsRunning
       IN  endpoint' = [endpoint EXCEPT
                           !.pc[r] = IF returns THEN "idle"
                                     ELSE IF ends THEN "terminate"
                                     ELSE "spawn"]
    /\ EndpointOnly

\* tracking_process.terminate(), wait(timeout=5) and, on the timeout, kill()
\* and wait(): the process the global names now is ended
Terminates(r) ==
    /\ endpoint.pc[r] = "terminate"
    /\ endpoint' = [endpoint EXCEPT
                       !.alive = @ \ {endpoint.tracking_process},
                       !.pc[r] = IF endpoint.action[r] = "stop" THEN "idle"
                                 ELSE "spawn",
                       !.success[r] = endpoint.action[r] = "stop"]
    /\ EndpointOnly

\* tracking_process = subprocess.Popen(...), the reader thread, success true
Spawns(r) ==
    /\ endpoint.pc[r] = "spawn"
    /\ endpoint.spawned < MaxSpawned
    /\ LET process == endpoint.spawned + 1
       IN  endpoint' = [endpoint EXCEPT
                           !.tracking_process = process,
                           !.alive = @ \cup {process},
                           !.spawned = process,
                           !.pc[r] = "idle",
                           !.success[r] = TRUE]
    /\ EndpointOnly

\* a tracking subprocess ends on its own
ProcessExits(process) ==
    /\ process \in endpoint.alive
    /\ endpoint' = [endpoint EXCEPT !.alive = @ \ {process}]
    /\ EndpointOnly

InitEndpoint ==
    /\ InitRest
    /\ InitBeside

NextEndpoint ==
    \/ \E r \in Requests, action \in Actions : RequestArrives(r, action)
    \/ \E r \in Requests : Checks(r)
    \/ \E r \in Requests : Terminates(r)
    \/ \E r \in Requests : Spawns(r)
    \/ \E process \in 1..MaxSpawned : ProcessExits(process)

SpecEndpoint == InitEndpoint /\ [][NextEndpoint]_vars

\* C40: for any sequence and interleaving of start, stop and restart requests
\* at most one tracking subprocess launched by the endpoint is alive at any
\* time; start while one is alive spawns nothing and stop while none is alive
\* changes nothing.
C40_AtMostOneProcess == Cardinality(endpoint.alive) <= 1

\* the same while no two requests have been under way at once
C40_OneRequestAtATime ==
    ~endpoint.overlap => Cardinality(endpoint.alive) <= 1

\* two subprocesses alive, the older one no longer named by the global
C40_TwoAlive ==
    /\ Cardinality(endpoint.alive) = 2
    /\ \E process \in endpoint.alive : process # endpoint.tracking_process
    /\ \A r \in Requests : endpoint.pc[r] = "idle" /\ endpoint.success[r]
====
